---------------------------- MODULE Spec2Model ----------------------------
(***************************************************************************)
(* Phone-number cleaning, statistics and invalid-number tracking of the   *)
(* daily CDR script (src/VI_GetCDRs.js).                                  *)
(*                                                                         *)
(* A JavaScript value is a record [type, chars, num]: a string is its     *)
(* sequence of one-character strings, so that stripping the non-digits,   *)
(* taking a length, a prefix or a character is computed on the text.      *)
(***************************************************************************)
EXTENDS Integers, Sequences, FiniteSets, TLC

VARIABLES
  phone,                \* argument of the last cleanPhoneNumber call
  ret,                  \* value returned by the last cleanPhoneNumber call
  threw,                \* TRUE iff the last cleanPhoneNumber call threw
  stats,                \* the statistics object (createProcessingStats)
  before,               \* the statistics object as it was before the last call
  calls,                \* number of cleanPhoneNumber calls made on stats
  pc,                   \* position of the running script
  parsedCDRs,           \* records handed to processAndCleanCDRs so far
  processedRecords,     \* result of the map callback, one entry per record
  invalidPhoneNumbers,  \* the invalid-phone alert pool
  alertsSent,           \* number of sendAlert calls made
  hostZone,             \* time zone of the host the script runs on
  database,             \* the tables cdr, VI_Inboundcdrs and AuditTrail
  databaseBefore,       \* the tables as they were before the last WriteToSQL
  execution,            \* the last WriteToSQL call and what it gave back
  script,               \* the script that is running
  files,                \* the CDR files of the run and how far each has got
  connection,           \* the global connection pool of mssql: "open" or "closed"
  download              \* the retroactive script's download of one date after the other

vars == <<phone, ret, threw, stats, before, calls, pc, parsedCDRs,
          processedRecords, invalidPhoneNumbers, alertsSent, hostZone,
          database, databaseBefore, execution, script, files, connection,
          download>>

storeVars == <<database, databaseBefore, execution>>

fileVars == <<script, files, connection, download>>

batchVars ==
  <<parsedCDRs, processedRecords, invalidPhoneNumbers, alertsSent, hostZone>>

---------------------------------------------------------------------------
(* Bounds of the model *)

MaxDigits == 12     \* longest digit string among the inputs
MaxCalls == 3       \* calls made on one statistics object
MaxRecords == 3     \* records of one batch
MaxOrdered == 3     \* records of one batch whose orderings are compared
MaxExecutions == 2  \* WriteToSQL calls of one run
MaxCDRFiles == 2    \* CDR files of one run
MaxFileRecords == 100   \* records of one whole file
MaxUnusable == 13       \* unusable numbers of one whole file

---------------------------------------------------------------------------
(* JavaScript values *)

JSNull == [type |-> "null", chars |-> <<>>, num |-> 0]
JSUndefined == [type |-> "undefined", chars |-> <<>>, num |-> 0]
JSString(s) == [type |-> "string", chars |-> s, num |-> 0]
JSNumber(n) == [type |-> "number", chars |-> <<>>, num |-> n]
JSObject == [type |-> "object", chars |-> <<>>, num |-> 0]
JSNaN == [type |-> "NaN", chars |-> <<>>, num |-> 0]
\* a number with a fractional part, held as a count of 1/PriceUnits
JSDecimal(units) == [type |-> "decimal", chars |-> <<>>, num |-> units]

\* ToBoolean: what `!v` and `v && ...` test
Truthy(v) ==
  CASE v.type = "string" -> Len(v.chars) > 0
    [] v.type = "number" -> v.num # 0
    [] v.type = "decimal" -> v.num # 0
    [] v.type = "object" -> TRUE
    [] OTHER -> FALSE

DigitSeq == <<"0", "1", "2", "3", "4", "5", "6", "7", "8", "9">>
Digits == {DigitSeq[i] : i \in 1..Len(DigitSeq)}

\* UTF-16 code unit of a character: what the string comparisons compare
CharCode(c) ==
  CASE c = " " -> 32 [] c = "(" -> 40 [] c = ")" -> 41 [] c = "+" -> 43
    [] c = "-" -> 45 [] c = "." -> 46
    [] c = "0" -> 48 [] c = "1" -> 49 [] c = "2" -> 50 [] c = "3" -> 51
    [] c = "4" -> 52 [] c = "5" -> 53 [] c = "6" -> 54 [] c = "7" -> 55
    [] c = "8" -> 56 [] c = "9" -> 57
    [] c = "a" -> 97 [] c = "b" -> 98 [] c = "c" -> 99

\* \D of the regular expression: any character that is not 0-9
IsNonDigit(c) == CharCode(c) < 48 \/ CharCode(c) > 57

\* faulty variant: replace(/\D/, '') without the g flag removes the first match only
ReplaceFirstNonDigit(s) ==
  LET at == {i \in 1..Len(s) : IsNonDigit(s[i])} IN
  IF at = {} THEN s
  ELSE LET first == CHOOSE i \in at : \A j \in at : i <= j
       IN SubSeq(s, 1, first - 1) \o SubSeq(s, first + 1, Len(s))

\* phone.replace(/\D/g, '')
ReplaceNonDigits(s) == SelectSeq(s, LAMBDA c : ~IsNonDigit(c))

\* s.startsWith(c) for a one-character c
StartsWith(s, c) == Len(s) > 0 /\ s[1] = c

\* s.substring(1)
Substring1(s) == SubSeq(s, 2, Len(s))

---------------------------------------------------------------------------
(* Service-number whitelist *)

VALID_SERVICE_NUMBERS ==
  << <<"9", "1", "1">>, <<"4", "1", "1">>, <<"5", "1", "1">>,
     <<"6", "1", "1">>, <<"7", "1", "1">>, <<"8", "1", "1">> >>

ServiceCodes == {VALID_SERVICE_NUMBERS[i] : i \in 1..Len(VALID_SERVICE_NUMBERS)}

\* faulty variant: any N11 code is taken for a service number
IsN11Code(number) == Len(number) = 3 /\ number[2] = "1" /\ number[3] = "1"

isValidServiceNumber(number) == number \in ServiceCodes

---------------------------------------------------------------------------
(* The statistics object *)

InvalidCategoryNames ==
  {"international", "shortCodes", "invalidLength", "invalidPattern",
   "invalidAreaCode"}

createProcessingStats ==
  [ totalProcessed |-> 0,
    tenDigitNumbers |-> 0,
    serviceNumbers |-> 0,
    invalidNumbers |-> 0,
    serviceNumberBreakdown |-> [c \in ServiceCodes |-> 0],
    invalidExamples |-> <<>>,
    invalidCategories |-> [k \in InvalidCategoryNames |-> 0],
    uniqueNumbers |-> {} ]

\* stats.invalidExamples.push(...) while the list has fewer than 10 entries
InvalidExamplesLimit == 10

\* faulty variant: the list takes an entry while it has 10 entries or fewer
PushExampleOneMore(examples, label, raw) ==
  IF Len(examples) <= InvalidExamplesLimit
  THEN Append(examples, <<label, raw>>)
  ELSE examples

PushExample(examples, label, raw) ==
  IF Len(examples) < InvalidExamplesLimit
  THEN Append(examples, <<label, raw>>)
  ELSE examples

\* faulty variant: the set of unique numbers is replaced, not added to
CountServiceNumberLastSeen(s, cleaned) ==
  [s EXCEPT !.serviceNumbers = @ + 1,
            !.serviceNumberBreakdown[cleaned] = @ + 1,
            !.totalProcessed = @ + 1,
            !.uniqueNumbers = {cleaned}]

\* the `if (stats)` block of a valid service number
CountServiceNumber(s, cleaned) ==
  [s EXCEPT !.serviceNumbers = @ + 1,
            !.serviceNumberBreakdown[cleaned] = @ + 1,
            !.totalProcessed = @ + 1,
            !.uniqueNumbers = @ \cup {cleaned}]

\* faulty variant: the ten-digit branch forgets stats.totalProcessed++
CountTenDigitNoTotal(s, cleaned) ==
  [s EXCEPT !.tenDigitNumbers = @ + 1,
            !.uniqueNumbers = @ \cup {cleaned}]

\* the `if (stats)` block of a valid ten-digit number
CountTenDigit(s, cleaned) ==
  [s EXCEPT !.tenDigitNumbers = @ + 1,
            !.totalProcessed = @ + 1,
            !.uniqueNumbers = @ \cup {cleaned}]

\* faulty variant: the invalid branches forget stats.totalProcessed++
CountInvalidNoTotal(s, category, label, raw) ==
  [s EXCEPT !.invalidNumbers = @ + 1,
            !.invalidCategories[category] = @ + 1,
            !.invalidExamples = PushExample(@, label, raw)]

\* faulty variant: the invalid branches forget the per-reason counter
CountInvalidNoCategory(s, category, label, raw) ==
  [s EXCEPT !.invalidNumbers = @ + 1,
            !.totalProcessed = @ + 1,
            !.invalidExamples = PushExample(@, label, raw)]

\* the `if (stats)` blocks of the invalid outcomes
CountInvalid(s, category, label, raw) ==
  [s EXCEPT !.invalidNumbers = @ + 1,
            !.totalProcessed = @ + 1,
            !.invalidCategories[category] = @ + 1,
            !.invalidExamples = PushExample(@, label, raw)]

---------------------------------------------------------------------------
(* cleanPhoneNumber *)

\* faulty variant: the typeof test is missing
InputRejectedNoTypeof(p) == ~Truthy(p)

\* if (!phone || typeof phone !== 'string') return null;
InputRejected(p) == ~Truthy(p) \/ p.type # "string"

\* faulty variant: the first digit of an 11-digit string is dropped whatever it is
StripAnyLeadingDigit(cleaned) ==
  IF Len(cleaned) = 11 THEN Substring1(cleaned) ELSE cleaned

\* if (cleaned.length === 11 && cleaned.startsWith('1')) cleaned = cleaned.substring(1);
StripLeadingOne(cleaned) ==
  IF Len(cleaned) = 11 /\ StartsWith(cleaned, "1")
  THEN Substring1(cleaned)
  ELSE cleaned

\* faulty variant: only the all-zeros pattern is tested
IsAllZeros(cleaned) == cleaned = [i \in 1..10 |-> "0"]

\* cleaned === '0000000000' || cleaned === '1111111111'
IsAllZerosOrOnes(cleaned) ==
  \/ cleaned = [i \in 1..10 |-> "0"]
  \/ cleaned = [i \in 1..10 |-> "1"]

\* faulty variant: a first digit 1 passes as an area code
HasValidAreaCodeFromOne(cleaned) ==
  CharCode(cleaned[1]) >= CharCode("1") /\ CharCode(cleaned[1]) <= CharCode("9")

\* cleaned.charAt(0) >= '2' && cleaned.charAt(0) <= '9'
HasValidAreaCode(cleaned) ==
  CharCode(cleaned[1]) >= CharCode("2") /\ CharCode(cleaned[1]) <= CharCode("9")

\* faulty variant: the short-code band starts after 4
LengthCategoryOffByOne(len) ==
  IF len > 10 THEN "international"
  ELSE IF len > 4 /\ len <= 6 THEN "shortCodes"
  ELSE "invalidLength"

\* the categorisation of the remaining lengths
LengthCategory(len) ==
  IF len > 10 THEN "international"
  ELSE IF len >= 4 /\ len <= 6 THEN "shortCodes"
  ELSE "invalidLength"

\* faulty variant: the number is returned in +1 form
ReturnPlusOne(cleaned) == JSString(<<"+", "1">> \o cleaned)

\* `return cleaned;`
ReturnCleaned(cleaned) == JSString(cleaned)

\* faulty variant: the value returned depends on the statistics object
ReturnedWhileFew(value, s) ==
  [ret |-> IF s.totalProcessed > 1 THEN JSNull ELSE value, stats |-> s, threw |-> FALSE]

Returned(value, s) == [ret |-> value, stats |-> s, threw |-> FALSE]
Thrown(s) == [ret |-> JSUndefined, stats |-> s, threw |-> TRUE]

cleanPhoneNumber(p, s) ==
  IF InputRejected(p) THEN Returned(JSNull, s)
  ELSE IF p.type # "string" THEN Thrown(s)   \* TypeError: phone.replace is not a function
  ELSE
    LET digits == ReplaceNonDigits(p.chars) IN
    IF Len(digits) = 0 THEN Returned(JSNull, s)
    ELSE IF Len(digits) = 3 THEN
      IF isValidServiceNumber(digits)
      THEN Returned(ReturnCleaned(digits), CountServiceNumber(s, digits))
      ELSE Returned(JSNull, CountInvalid(s, "shortCodes", <<"Invalid 3-digit">>, p.chars))
    ELSE
      LET cleaned == StripLeadingOne(digits) IN
      IF Len(cleaned) = 10 THEN
        IF IsAllZerosOrOnes(cleaned)
        THEN Returned(JSNull, CountInvalid(s, "invalidPattern", <<"Invalid pattern">>, p.chars))
        ELSE IF HasValidAreaCode(cleaned)
        THEN Returned(ReturnCleaned(cleaned), CountTenDigit(s, cleaned))
        ELSE Returned(JSNull, CountInvalid(s, "invalidAreaCode", <<"Invalid area code">>, p.chars))
      ELSE
        Returned(JSNull,
                 CountInvalid(s, LengthCategory(Len(cleaned)),
                              <<"Invalid length", Len(cleaned)>>, p.chars))

---------------------------------------------------------------------------
(* The cleanPhoneNumber of the retroactive scripts (test-alert.js, twice)
   and of the local-file script: the three texts are the same statement for
   statement and differ from the daily script's in their log lines only.
   The function is written out here from that text, statement by statement,
   each `if (stats)` block in its place. *)

\* const VALID_SERVICE_NUMBERS of test-alert.js
RetroactiveServiceNumbers ==
  { <<"9", "1", "1">>, <<"4", "1", "1">>, <<"5", "1", "1">>,
    <<"6", "1", "1">>, <<"7", "1", "1">>, <<"8", "1", "1">> }

\* if (stats.invalidExamples.length < 10) stats.invalidExamples.push(text)
RetroactiveExample(s, text) ==
  IF Len(s.invalidExamples) < 10
  THEN [s EXCEPT !.invalidExamples = Append(@, text)]
  ELSE s

cleanPhoneNumberRetroactive(p, s) ==
  IF ~Truthy(p) \/ p.type # "string"
  THEN [ret |-> JSNull, stats |-> s, threw |-> FALSE]
  ELSE
    LET digits == ReplaceNonDigits(p.chars) IN
    IF Len(digits) = 0
    THEN [ret |-> JSNull, stats |-> s, threw |-> FALSE]
    ELSE IF Len(digits) = 3
    THEN
      IF digits \in RetroactiveServiceNumbers
      THEN [ret |-> JSString(digits),
            stats |-> [s EXCEPT !.serviceNumbers = @ + 1,
                                !.serviceNumberBreakdown[digits] = @ + 1,
                                !.totalProcessed = @ + 1,
                                !.uniqueNumbers = @ \cup {digits}],
            threw |-> FALSE]
      ELSE [ret |-> JSNull,
            stats |-> RetroactiveExample(
                        [s EXCEPT !.invalidNumbers = @ + 1,
                                  !.totalProcessed = @ + 1,
                                  !.invalidCategories["shortCodes"] = @ + 1],
                        << <<"Invalid 3-digit">>, p.chars >>),
            threw |-> FALSE]
    ELSE
      LET cleaned == IF Len(digits) = 11 /\ digits[1] = "1"
                     THEN SubSeq(digits, 2, 11)
                     ELSE digits
      IN
      IF Len(cleaned) = 10
      THEN
        IF cleaned = <<"0", "0", "0", "0", "0", "0", "0", "0", "0", "0">>
             \/ cleaned = <<"1", "1", "1", "1", "1", "1", "1", "1", "1", "1">>
        THEN [ret |-> JSNull,
              stats |-> RetroactiveExample(
                          [s EXCEPT !.invalidNumbers = @ + 1,
                                    !.totalProcessed = @ + 1,
                                    !.invalidCategories["invalidPattern"] = @ + 1],
                          << <<"Invalid pattern">>, p.chars >>),
              threw |-> FALSE]
        ELSE IF CharCode(cleaned[1]) >= CharCode("2") /\ CharCode(cleaned[1]) <= CharCode("9")
        THEN [ret |-> JSString(cleaned),
              stats |-> [s EXCEPT !.tenDigitNumbers = @ + 1,
                                  !.totalProcessed = @ + 1,
                                  !.uniqueNumbers = @ \cup {cleaned}],
              threw |-> FALSE]
        ELSE [ret |-> JSNull,
              stats |-> RetroactiveExample(
                          [s EXCEPT !.invalidNumbers = @ + 1,
                                    !.totalProcessed = @ + 1,
                                    !.invalidCategories["invalidAreaCode"] = @ + 1],
                          << <<"Invalid area code">>, p.chars >>),
              threw |-> FALSE]
      ELSE
        LET category == IF Len(cleaned) > 10 THEN "international"
                        ELSE IF Len(cleaned) >= 4 /\ Len(cleaned) <= 6 THEN "shortCodes"
                        ELSE "invalidLength"
        IN [ret |-> JSNull,
            stats |-> RetroactiveExample(
                        [s EXCEPT !.invalidNumbers = @ + 1,
                                  !.totalProcessed = @ + 1,
                                  !.invalidCategories[category] = @ + 1],
                        << <<"Invalid length", Len(cleaned)>>, p.chars >>),
            threw |-> FALSE]

---------------------------------------------------------------------------
(* Inputs of cleanPhoneNumber *)

DigitChar(n) == DigitSeq[n + 1]

\* n times the digit d: 0000000000, 1111111111, 999, ...
Uniform(d, n) == [i \in 1..n |-> d]

\* the digit d followed by n - 1 varying digits: 1567890123, 5567890123, ...
Mixed(d, n) == [i \in 1..n |-> IF i = 1 THEN d ELSE DigitChar((i + 3) % 10)]

FirstDigits == {"0", "1", "2", "5", "9"}

TenDigitStrings ==
  {Uniform(d, 10) : d \in FirstDigits} \cup {Mixed(d, 10) : d \in FirstDigits}

DigitStrings ==
  {Uniform(d, n) : d \in FirstDigits, n \in 1..MaxDigits}
    \cup {Mixed(d, n) : d \in FirstDigits, n \in 1..MaxDigits}
    \cup {<<a, "1", "1">> : a \in Digits}
    \cup {<<"1", "2", "3">>, <<"9", "1", "2">>, <<"1", "1", "9">>, <<"1", "9", "1">>}
    \cup {<<"0", "9", "1", "1">>, <<"1", "9", "1", "1">>, <<"9", "1", "1", "1">>}
    \cup {<<a>> \o t : a \in {"1", "2", "9"}, t \in TenDigitStrings}

\* s with sep between every two characters: 9-1-1, 9.1.1
Interleave(s, sep) ==
  [i \in 1..(2 * Len(s) - 1) |-> IF i % 2 = 1 THEN s[(i + 1) \div 2] ELSE sep]

Formats(s) ==
  { s,
    Interleave(s, "-"),
    Interleave(s, "."),
    <<" ">> \o s \o <<" ">>,
    <<"(">> \o s \o <<")">>,
    <<"+">> \o s,
    <<"a">> \o s \o <<"b", "c">> }

NoDigitStrings == {<<>>, <<"a", "b", "c">>, <<"-">>, <<" ", " ">>, <<"(", ")">>}

PhoneInputs ==
  {JSNull, JSUndefined, JSNumber(0), JSNumber(911), JSObject}
    \cup {JSString(s) : s \in NoDigitStrings}
    \cup {JSString(f) : f \in UNION {Formats(s) : s \in DigitStrings}}

\* one input of every outcome, for the runs of several calls on one object
SampleInputs ==
  { JSNull,
    JSString(<<>>),
    JSString(<<"a", "b", "c">>),
    JSNumber(911),
    JSString(<<"9", "-", "1", "-", "1">>),
    JSString(<<"4", "1", "1">>),
    JSString(<<"1", "2", "3">>),
    JSString(<<"(">> \o Mixed("5", 3) \o <<")", " ">> \o Mixed("1", 3) \o <<"-">> \o Mixed("4", 4)),
    JSString(<<"+">> \o <<"1">> \o Mixed("5", 10)),
    JSString(Uniform("0", 10)),
    JSString(Mixed("1", 10)),
    JSString(Mixed("3", MaxDigits)),
    JSString(Mixed("4", 5)),
    JSString(<<"9", "1">>) }

---------------------------------------------------------------------------
(* Dates.  An instant is a number of hours since 2025-01-01T00:00Z; a Date
   object is [valid, t], an Invalid Date having valid = FALSE. *)

\* the time zone of the production host
HostZones == {"America/Los_Angeles"}

\* time zones a host can be set to: with daylight saving time in the
\* northern summer, without any, with daylight saving time in January
TimeZones == {"America/Los_Angeles", "UTC", "Australia/Sydney"}

\* the timestamps the input texts denote
StampJanuary == <<"2025-01-13T10:00:00Z">>
StampMarch == <<"2025-03-09T16:00:00Z">>
StampJuly == <<"2025-07-04T10:00:00Z">>
StampNovember == <<"2025-11-02T16:00:00Z">>
StampUnparseable == <<"n", "/", "a">>

\* new Date(text)
NewDate(v) ==
  IF v.type = "string" /\ v.chars = StampJanuary THEN [valid |-> TRUE, t |-> 12 * 24 + 10]
  ELSE IF v.type = "string" /\ v.chars = StampMarch THEN [valid |-> TRUE, t |-> 67 * 24 + 16]
  ELSE IF v.type = "string" /\ v.chars = StampJuly THEN [valid |-> TRUE, t |-> 184 * 24 + 10]
  ELSE IF v.type = "string" /\ v.chars = StampNovember THEN [valid |-> TRUE, t |-> 305 * 24 + 16]
  ELSE [valid |-> FALSE, t |-> 0]

\* daylight saving time in 2025: America/Los_Angeles from 9 March 10:00Z to
\* 2 November 09:00Z, Australia/Sydney until 5 April 16:00Z and from
\* 4 October 16:00Z
DaylightSaving(zone, t) ==
  \/ zone = "America/Los_Angeles" /\ t >= 67 * 24 + 10 /\ t < 305 * 24 + 9
  \/ zone = "Australia/Sydney" /\ (t < 94 * 24 + 16 \/ t >= 276 * 24 + 16)

\* date.getTimezoneOffset(), in minutes, of a valid date
getTimezoneOffset(zone, t) ==
  IF zone = "America/Los_Angeles"
  THEN (IF DaylightSaving(zone, t) THEN 420 ELSE 480)
  ELSE IF zone = "Australia/Sydney"
  THEN (IF DaylightSaving(zone, t) THEN -660 ELSE -600)
  ELSE 0

\* new Date(date.getFullYear(), 0, 1): local midnight of 1 January
JanuaryFirst(zone) ==
  IF zone = "America/Los_Angeles" THEN 8
  ELSE IF zone = "Australia/Sydney" THEN -11
  ELSE 0

\* faulty variant: daylight saving time is any difference from 1 January
getPSTOffsetByDifference(zone, date) ==
  LET isDST == /\ date.valid
               /\ getTimezoneOffset(zone, date.t)
                    # getTimezoneOffset(zone, JanuaryFirst(zone))
  IN IF isDST THEN -7 ELSE -8

\* an Invalid Date has a NaN offset and NaN < x is false
getPSTOffset(zone, date) ==
  LET isDST == /\ date.valid
               /\ getTimezoneOffset(zone, date.t)
                    < getTimezoneOffset(zone, JanuaryFirst(zone))
  IN IF isDST THEN -7 ELSE -8

\* the local time of the host's clock at the instant t, in hours
LocalTime(zone, t) == t - getTimezoneOffset(zone, t) \div 60

\* the instant of a local time: the earliest when the clock shows the time
\* twice; a time the clock skips is read with the offset before the change
UTCOf(zone, local) ==
  LET instants == {u \in (local - 14)..(local + 14) : LocalTime(zone, u) = local} IN
  IF instants # {}
  THEN CHOOSE u \in instants : \A v \in instants : u <= v
  ELSE local + getTimezoneOffset(zone, local - 24) \div 60

\* startTime.setHours(startTime.getHours() + pstOffset): the local hour moves
setHours(zone, date, offset) ==
  IF date.valid
  THEN [date EXCEPT !.t = UTCOf(zone, LocalTime(zone, @) + offset)]
  ELSE date

\* the text toISOString returns for the instant t
JSIsoString(t) == [type |-> "isostring", chars |-> <<>>, num |-> t]

---------------------------------------------------------------------------
(* Numbers.  parseInt and parseFloat read the longest numeric prefix of the
   text after its leading white space.  The texts of the model hold no
   exponent and not the word Infinity, and no more than four digits after the
   point, so a price is an exact count of 1/PriceUnits. *)

PriceUnits == 10000
PriceDigits == 4

IsWhiteSpace(c) == c \in {" ", "\t", "\n"}

\* the text without its leading white space
TrimStart(s) ==
  LET at == {i \in 1..Len(s) : ~IsWhiteSpace(s[i])} IN
  IF at = {} THEN <<>>
  ELSE SubSeq(s, CHOOSE i \in at : \A j \in at : i <= j, Len(s))

HexDigitSeq == DigitSeq \o <<"a", "b", "c", "d", "e", "f">>

LowerCase(c) ==
  CASE c = "A" -> "a" [] c = "B" -> "b" [] c = "C" -> "c"
    [] c = "D" -> "d" [] c = "E" -> "e" [] c = "F" -> "f" [] OTHER -> c

\* value of a digit in the given radix, or -1
DigitValue(c, radix) ==
  LET at == {i \in 1..radix : HexDigitSeq[i] = LowerCase(c)} IN
  IF at = {} THEN -1 ELSE (CHOOSE i \in at : TRUE) - 1

\* the longest prefix of s made of digits of the radix
DigitsPrefix(s, radix) ==
  LET at == {i \in 1..Len(s) : DigitValue(s[i], radix) < 0} IN
  IF at = {} THEN s
  ELSE SubSeq(s, 1, (CHOOSE i \in at : \A j \in at : i <= j) - 1)

RECURSIVE NumberOf(_, _)
\* the number a sequence of digits denotes
NumberOf(digits, radix) ==
  IF digits = <<>> THEN 0
  ELSE NumberOf(SubSeq(digits, 1, Len(digits) - 1), radix) * radix
       + DigitValue(digits[Len(digits)], radix)

IsSign(s) == Len(s) > 0 /\ s[1] \in {"+", "-"}

HasHexPrefix(s) == Len(s) >= 2 /\ s[1] = "0" /\ s[2] \in {"x", "X"}

\* parseInt(v), no radix given
parseInt(v) ==
  IF v.type = "number" THEN v
  ELSE IF v.type # "string" THEN JSNaN
  ELSE
    LET t == TrimStart(v.chars)
        sign == IF Len(t) > 0 /\ t[1] = "-" THEN -1 ELSE 1
        body == IF IsSign(t) THEN Tail(t) ELSE t
        radix == IF HasHexPrefix(body) THEN 16 ELSE 10
        digits == DigitsPrefix(IF radix = 16 THEN SubSeq(body, 3, Len(body)) ELSE body, radix)
    IN IF digits = <<>> THEN JSNaN ELSE JSNumber(sign * NumberOf(digits, radix))

\* the first PriceDigits digits after the point, as a count of 1/PriceUnits
FractionUnits(digits) ==
  LET kept == SubSeq(digits, 1, IF Len(digits) < PriceDigits THEN Len(digits) ELSE PriceDigits)
      padded == kept \o [i \in 1..(PriceDigits - Len(kept)) |-> "0"]
  IN NumberOf(padded, 10)

\* parseFloat(v)
parseFloat(v) ==
  IF v.type = "number" THEN JSDecimal(v.num * PriceUnits)
  ELSE IF v.type # "string" THEN JSNaN
  ELSE
    LET t == TrimStart(v.chars)
        sign == IF Len(t) > 0 /\ t[1] = "-" THEN -1 ELSE 1
        body == IF IsSign(t) THEN Tail(t) ELSE t
        whole == DigitsPrefix(body, 10)
        rest == SubSeq(body, Len(whole) + 1, Len(body))
        fraction == IF Len(rest) > 0 /\ rest[1] = "."
                    THEN DigitsPrefix(Tail(rest), 10) ELSE <<>>
    IN IF whole = <<>> /\ fraction = <<>> THEN JSNaN
       ELSE JSDecimal(sign * (NumberOf(whole, 10) * PriceUnits + FractionUnits(fraction)))

\* v || default
OrElse(v, default) == IF Truthy(v) THEN v ELSE default

---------------------------------------------------------------------------
(* The stored procedure VI_StoreCDRs (src/VI_StoreCDRs.sql).  A column value
   is a record [type, chars, num] as well; `=` on NULL is UNKNOWN, which a
   WHERE clause treats as false. *)

SqlNull == [type |-> "NULL", chars |-> <<>>, num |-> 0]

\* the value OPENJSON gives a column of the WITH clause
ToDatetime2(v) ==
  IF v.type = "isostring" THEN [type |-> "datetime2", chars |-> <<>>, num |-> v.num]
  ELSE SqlNull

ToInt(v) == IF v.type = "number" THEN [type |-> "int", chars |-> <<>>, num |-> v.num] ELSE SqlNull

ToDecimal(v) ==
  IF v.type = "decimal" THEN [type |-> "decimal(10,4)", chars |-> <<>>, num |-> v.num]
  ELSE IF v.type = "number" THEN [type |-> "decimal(10,4)", chars |-> <<>>, num |-> v.num * PriceUnits]
  ELSE SqlNull

ToNVarchar(v) ==
  IF v.type = "string" THEN [type |-> "nvarchar", chars |-> v.chars, num |-> 0] ELSE SqlNull

SqlLiteral(text) == [type |-> "nvarchar", chars |-> <<text>>, num |-> 0]

\* SELECT * FROM OPENJSON(@cdrData) WITH (...)
OpenJson(cdrData) ==
  [i \in 1..Len(cdrData) |->
     [StartTime |-> ToDatetime2(cdrData[i].StartTime),
      BillDuration |-> ToInt(cdrData[i].BillDuration),
      CallPrice |-> ToDecimal(cdrData[i].CallPrice),
      ANI |-> ToNVarchar(cdrData[i].ANI),
      DNIS |-> ToNVarchar(cdrData[i].DNIS),
      CustomerIP |-> ToNVarchar(cdrData[i].CustomerIP),
      CallType |-> ToNVarchar(cdrData[i].CallType),
      LRN |-> ToNVarchar(cdrData[i].LRN)]]

\* a = b as a WHERE clause takes it
SqlEquals(a, b) == a # SqlNull /\ b # SqlNull /\ a = b

\* the WHERE clause of the NOT EXISTS subquery
Matches(c, vi) ==
  /\ SqlEquals(c.date, vi.StartTime)
  /\ SqlEquals(c.source, vi.ANI)
  /\ SqlEquals(c.destination, vi.DNIS)
  /\ SqlEquals(c.seconds, vi.BillDuration)
  /\ SqlEquals(c.cost, vi.CallPrice)

\* the select list of the INSERT INTO cdr
CdrRow(vi) ==
  [date |-> vi.StartTime, source |-> vi.ANI, destination |-> vi.DNIS,
   seconds |-> vi.BillDuration, callerid |-> vi.ANI,
   disposition |-> SqlLiteral("ANSWERED"), cost |-> vi.CallPrice,
   peer |-> vi.CustomerIP, SIP |-> SqlLiteral("VI"), CallType |-> vi.CallType]

\* INSERT INTO cdr ... SELECT ... FROM VI_Inboundcdrs vi WHERE NOT EXISTS (...):
\* the subquery reads cdr as it is before the statement
InsertIntoCdr(cdr, staging) ==
  LET new == SelectSeq(staging, LAMBDA vi : ~\E i \in 1..Len(cdr) : Matches(cdr[i], vi))
  IN cdr \o [i \in 1..Len(new) |-> CdrRow(new[i])]

SuccessRow(filename, recordCount) ==
  [event |-> <<"Processed ", filename>>, outcome |-> "Success", datavalue |-> recordCount]

FailedRow(filename) ==
  [event |-> <<"CDR Processing Error - ", filename>>, outcome |-> "Failed", datavalue |-> 0]

EmptyDatabase == [cdr |-> <<>>, VI_Inboundcdrs |-> <<>>, AuditTrail |-> <<>>]

\* the statements of the TRY block that can fail
Statements == <<"truncate", "stage", "insert", "cleanup", "audit", "commit">>

FailPoints == {Statements[i] : i \in 1..Len(Statements)}

\* faulty variant: the CATCH block does not roll back
RollbackNothing(snapshot, work) == work

\* ROLLBACK TRANSACTION: the tables are as at BEGIN TRANSACTION
Rollback(snapshot, work) == snapshot

\* EXEC VI_StoreCDRs @cdrData, @filename, @recordCount OUTPUT, the statement
\* failAt failing ("none": no statement fails): [db, recordCount, threw]
VI_StoreCDRs(db, cdrData, filename, failAt) ==
  LET truncated == [db EXCEPT !.VI_Inboundcdrs = <<>>]
      staged == [truncated EXCEPT !.VI_Inboundcdrs = @ \o OpenJson(cdrData)]
      recordCount == Len(staged.VI_Inboundcdrs)
      inserted == [staged EXCEPT !.cdr = InsertIntoCdr(@, staged.VI_Inboundcdrs)]
      cleaned == [inserted EXCEPT !.VI_Inboundcdrs = <<>>]
      audited == [cleaned EXCEPT !.AuditTrail = Append(@, SuccessRow(filename, recordCount))]
      reached == CASE failAt = "truncate" -> db
                   [] failAt = "stage" -> truncated
                   [] failAt = "insert" -> staged
                   [] failAt = "cleanup" -> inserted
                   [] failAt = "audit" -> cleaned
                   [] OTHER -> audited
  IN IF failAt = "none"
     THEN [db |-> audited, recordCount |-> recordCount, threw |-> FALSE]
     ELSE [db |-> [Rollback(db, reached) EXCEPT !.AuditTrail = Append(@, FailedRow(filename))],
           recordCount |-> IF failAt \in {"truncate", "stage"} THEN 0 ELSE recordCount,
           threw |-> TRUE]

NoExecution ==
  [count |-> 0, cdrData |-> <<>>, failAt |-> "none", connected |-> FALSE,
   recordCount |-> 0, threw |-> FALSE]

---------------------------------------------------------------------------
(* The download of the retroactive script before any date is taken *)

NoDownload ==
  [ optimized |-> TRUE, dates |-> 0, position |-> "idle", approach |-> 0,
    pasv |-> "unset", retryCount |-> 0, downloadSuccess |-> FALSE,
    attempts |-> <<>>, closed |-> FALSE, result |-> "none",
    successCount |-> 0, errorCount |-> 0 ]

---------------------------------------------------------------------------
(* One call of cleanPhoneNumber(p, stats) on the shared statistics object *)

Call(p) ==
  LET r == cleanPhoneNumber(p, stats) IN
    /\ phone' = p
    /\ ret' = r.ret
    /\ threw' = r.threw
    /\ before' = stats
    /\ stats' = r.stats
    /\ calls' = calls + 1

InitCommon ==
  /\ ret = JSUndefined
  /\ threw = FALSE
  /\ stats = createProcessingStats
  /\ before = createProcessingStats
  /\ calls = 0
  /\ parsedCDRs = <<>>
  /\ processedRecords = <<>>
  /\ invalidPhoneNumbers = <<>>
  /\ alertsSent = 0
  /\ hostZone \in HostZones
  /\ database = EmptyDatabase
  /\ databaseBefore = EmptyDatabase
  /\ execution = NoExecution
  /\ script = "none"
  /\ connection = "closed"
  /\ download = NoDownload
  /\ files = <<>>

(* Classification of one input on a fresh statistics object, followed by the
   classification of the value it returned. *)

InitClassify ==
  /\ InitCommon
  /\ phone \in PhoneInputs
  /\ pc = "input"

Classify ==
  /\ pc = "input"
  /\ Call(phone)
  /\ pc' = "classified"
  /\ UNCHANGED batchVars
  /\ UNCHANGED <<storeVars, fileVars>>

Reclassify ==
  /\ pc = "classified"
  /\ ~threw
  /\ ret # JSNull
  /\ Call(ret)
  /\ pc' = "reclassified"
  /\ UNCHANGED batchVars
  /\ UNCHANGED <<storeVars, fileVars>>

NextClassify == Classify \/ Reclassify

SpecClassify == InitClassify /\ [][NextClassify]_vars

(* Any sequence of calls on one statistics object. *)

InitStats ==
  /\ InitCommon
  /\ phone = JSUndefined
  /\ pc = "calls"

CallAny ==
  /\ pc = "calls"
  /\ calls < MaxCalls
  /\ \E p \in SampleInputs : Call(p)
  /\ UNCHANGED <<pc, batchVars>>
  /\ UNCHANGED <<storeVars, fileVars>>

NextStats == CallAny

SpecStats == InitStats /\ [][NextStats]_vars

(* A long sequence of calls on one statistics object, on few inputs: enough
   invalid numbers to fill the list of examples. *)

MaxExampleCalls == 12

ExampleInputs ==
  { JSString(<<"1", "2", "3">>),
    JSString(Uniform("0", 10)),
    JSString(<<"9", "1", "1">>),
    JSString(Mixed("5", 10)) }

InitExamples ==
  /\ InitCommon
  /\ phone = JSUndefined
  /\ pc = "examples"

CallExample ==
  /\ pc = "examples"
  /\ calls < MaxExampleCalls
  /\ \E p \in ExampleInputs : Call(p)
  /\ UNCHANGED <<pc, batchVars>>
  /\ UNCHANGED <<storeVars, fileVars>>

NextExamples == CallExample

SpecExamples == InitExamples /\ [][NextExamples]_vars

(* processAndCleanCDRs: the map callback runs once per record, then the
   null results are filtered out and the alert is decided. *)

NullRecord ==
  [isNull |-> TRUE, StartTime |-> JSNull, BillDuration |-> JSNull, CallPrice |-> JSNull,
   ANI |-> JSNull, DNIS |-> JSNull, CustomerIP |-> JSNull, CallType |-> JSNull,
   LRN |-> JSNull]

\* faulty variant: the `&& raw` test is missing
TrackInvalidNoRawTest(pool, field, cleanedValue, raw) ==
  IF Truthy(cleanedValue) THEN [pool |-> pool, threw |-> FALSE]
  ELSE IF raw.type # "string" THEN [pool |-> pool, threw |-> TRUE]
  ELSE
    LET digits == ReplaceNonDigits(raw.chars) IN
    IF Len(digits) # 3 \/ ~isValidServiceNumber(digits)
    THEN [pool |-> Append(pool, <<field, raw.chars>>), threw |-> FALSE]
    ELSE [pool |-> pool, threw |-> FALSE]

\* the invalid-number tracking of one field:
\*   if (!cleanedValue && raw) { ... raw.replace(/\D/g, '') ... push }
\* [pool, threw]
TrackInvalid(pool, field, cleanedValue, raw) ==
  IF ~(~Truthy(cleanedValue) /\ Truthy(raw)) THEN [pool |-> pool, threw |-> FALSE]
  ELSE IF raw.type # "string" THEN [pool |-> pool, threw |-> TRUE]
  ELSE
    LET digits == ReplaceNonDigits(raw.chars) IN
    IF Len(digits) # 3 \/ ~isValidServiceNumber(digits)
    THEN [pool |-> Append(pool, <<field, raw.chars>>), threw |-> FALSE]
    ELSE [pool |-> pool, threw |-> FALSE]

\* the body of the map callback: [result, stats, pool, last]
MapCallback(record, s, pool, zone) ==
  LET date == NewDate(record.StartTime)
      startTime == IF Truthy(record.StartTime)
                   THEN setHours(zone, date, getPSTOffset(zone, date))
                   ELSE date
      a == cleanPhoneNumber(record.ANI, s)
      d == cleanPhoneNumber(record.DNIS, a.stats)
      ta == TrackInvalid(pool, "ANI", a.ret, record.ANI)
      td == TrackInvalid(ta.pool, "DNIS", d.ret, record.DNIS)
      failed == \/ a.threw \/ d.threw
                \/ ta.threw
                \/ td.threw
                \/ (Truthy(record.StartTime) /\ ~startTime.valid)   \* toISOString: RangeError
      result == IF failed THEN NullRecord
                ELSE [isNull |-> FALSE,
                      StartTime |-> IF Truthy(record.StartTime)
                                    THEN JSIsoString(startTime.t) ELSE JSNull,
                      BillDuration |-> OrElse(parseInt(record.BillDuration), JSNumber(0)),
                      CallPrice |-> OrElse(parseFloat(record.CallPrice), JSDecimal(0)),
                      ANI |-> a.ret,
                      DNIS |-> d.ret,
                      CustomerIP |-> OrElse(record.CustomerIP, JSString(<<>>)),
                      CallType |-> OrElse(record.CallType, JSString(<<>>)),
                      LRN |-> OrElse(record.LRN, JSString(<<>>))]
  IN [ result |-> result,
       stats |-> IF a.threw THEN s ELSE IF d.threw THEN a.stats ELSE d.stats,
       pool |-> IF a.threw \/ d.threw \/ ta.threw THEN pool
                ELSE IF td.threw THEN ta.pool ELSE td.pool,
       ani |-> a, dnis |-> d ]

\* Math.max(5, Math.floor(parsedCDRs.length * 0.1))
MinAlertCount == 5

AlertThreshold(n) == IF n \div 10 > MinAlertCount THEN n \div 10 ELSE MinAlertCount

\* faulty variant: the pool has to exceed the threshold
SendsAlertStrict(pool, n) ==
  Len(pool) > 0 /\ Len(pool) > AlertThreshold(n)

\* faulty variant: the pool is compared to a tenth of the batch only
SendsAlertByRate(pool, n) == Len(pool) >= n \div 10

\* if (invalidPhoneNumbers.length > 0) { ... if (invalidPhoneNumbers.length >= threshold)
SendsAlert(pool, n) ==
  Len(pool) > 0 /\ Len(pool) >= AlertThreshold(n)

\* faulty variant: the null results are not filtered out
KeepNulls(records) == records

\* .filter(record => record !== null)
FilterNotNull(records) == SelectSeq(records, LAMBDA r : ~r.isNull)

BatchPhones ==
  { JSString(<<>>),
    JSString(<<"9", "-", "1", "-", "1">>),
    JSString(<<"1", "2", "3">>),
    JSString(<<"(">> \o Mixed("5", 3) \o <<")", " ">> \o Mixed("1", 3) \o <<"-">> \o Mixed("4", 4)) }

\* a row as Papa.parse gives it: every column of the header is a text
CDRRow(startTime, ani, dnis) ==
  [StartTime |-> startTime,
   BillDuration |-> JSString(<<"4", "2">>),
   CallPrice |-> JSString(<<"0", ".", "0", "5">>),
   ANI |-> ani,
   DNIS |-> dnis,
   CustomerIP |-> JSString(<<"10.0.0.1">>),
   CallType |-> JSString(<<"Inbound">>),
   LRN |-> JSString(<<>>)]

BatchRecords ==
  {CDRRow(JSString(StampJanuary), a, d) : a \in BatchPhones, d \in BatchPhones}
  \cup
  { CDRRow(JSUndefined, JSString(<<"a", "b", "c">>), JSUndefined),
    CDRRow(JSString(StampJuly), JSString(Uniform("1", 10)), JSString(Mixed("0", MaxDigits))),
    CDRRow(JSString(StampUnparseable), JSString(<<"1", "2", "3">>), JSString(<<"9", "1", "1">>)),
    CDRRow(JSString(StampJanuary), JSNumber(911), JSString(<<"1", "2", "3">>)),
    CDRRow(JSString(StampJanuary), JSString(<<"1", "2", "3">>), JSNumber(911)) }

InitBatch ==
  /\ InitCommon
  /\ phone = JSUndefined
  /\ pc = "map"

\* one run of the map callback on the next record
MapRecord(record) ==
  \E m \in {MapCallback(record, stats, invalidPhoneNumbers, hostZone)} :
    /\ parsedCDRs' = Append(parsedCDRs, record)
    /\ processedRecords' = Append(processedRecords, m.result)
    /\ invalidPhoneNumbers' = m.pool
    /\ stats' = m.stats
    /\ before' = m.ani.stats
    /\ phone' = record.DNIS
    /\ ret' = m.dnis.ret
    /\ threw' = m.dnis.threw
    /\ calls' = calls + 2

ProcessRecord ==
  /\ pc = "map"
  /\ Len(parsedCDRs) < MaxRecords
  /\ \E record \in BatchRecords : MapRecord(record)
  /\ UNCHANGED <<pc, alertsSent, hostZone>>
  /\ UNCHANGED <<storeVars, fileVars>>

Finish ==
  /\ pc = "map"
  /\ processedRecords' = FilterNotNull(processedRecords)
  /\ alertsSent' =
       IF SendsAlert(invalidPhoneNumbers, Len(parsedCDRs))
       THEN alertsSent + 1
       ELSE alertsSent
  /\ pc' = "done"
  /\ UNCHANGED <<phone, ret, threw, stats, before, calls, parsedCDRs,
                 invalidPhoneNumbers, hostZone>>
  /\ UNCHANGED <<storeVars, fileVars>>

NextBatch == ProcessRecord \/ Finish

SpecBatch == InitBatch /\ [][NextBatch]_vars

(* processAndCleanCDRs on a file of one row, the row having any of the texts
   a column can hold. *)

StartTimeTexts ==
  { JSUndefined, JSString(<<>>), JSString(StampJanuary), JSString(StampJuly),
    JSString(StampUnparseable) }

BillDurationTexts ==
  { JSUndefined, JSString(<<>>), JSString(<<"0">>), JSString(<<"4", "2">>),
    JSString(<<"-", "5">>), JSString(<<"a", "b", "c">>), JSString(<<"1", "2", "a">>),
    JSString(<<" ", "7">>), JSString(<<"3", ".", "9">>), JSString(<<"0", "x", "1", "a">>) }

CallPriceTexts ==
  { JSUndefined, JSString(<<>>), JSString(<<"0">>), JSString(<<"0", ".", "0", "5">>),
    JSString(<<"-", "5">>), JSString(<<"-", "0", ".", "5">>), JSString(<<"a", "b", "c">>),
    JSString(<<".", "5">>), JSString(<<"1", ".", "5", "x">>), JSString(<<"+", "2", ".">>) }

RowPhones ==
  { <<JSString(Mixed("5", 10)), JSString(<<"9", "1", "1">>)>>,
    <<JSString(<<"1", "2", "3">>), JSString(<<"1">> \o Mixed("2", 10))>>,
    <<JSString(Mixed("4", 5)), JSString(Uniform("0", 10))>>,
    <<JSString(<<>>), JSString(<<"a", "b", "c">>)>> }

Rows ==
  {[CDRRow(t, ph[1], ph[2]) EXCEPT !.BillDuration = b, !.CallPrice = c] :
     t \in StartTimeTexts, b \in BillDurationTexts, c \in CallPriceTexts, ph \in RowPhones}

InitRow ==
  /\ InitCommon
  /\ phone = JSUndefined
  /\ pc = "map"

ProcessRow ==
  /\ pc = "map"
  /\ parsedCDRs = <<>>
  /\ \E record \in Rows : MapRecord(record)
  /\ UNCHANGED <<pc, alertsSent, hostZone>>
  /\ UNCHANGED <<storeVars, fileVars>>

NextRow == ProcessRow \/ Finish

SpecRow == InitRow /\ [][NextRow]_vars

(* processAndCleanCDRs on one row, on hosts of different time zones and on
   timestamps next to a change of the host's clock. *)

ZoneStartTimes ==
  { JSString(StampJanuary), JSString(StampMarch), JSString(StampJuly),
    JSString(StampNovember), JSString(StampUnparseable), JSUndefined }

ZoneRows == {CDRRow(t, ph[1], ph[2]) : t \in ZoneStartTimes, ph \in RowPhones}

InitZone ==
  /\ ret = JSUndefined
  /\ threw = FALSE
  /\ stats = createProcessingStats
  /\ before = createProcessingStats
  /\ calls = 0
  /\ phone = JSUndefined
  /\ parsedCDRs = <<>>
  /\ processedRecords = <<>>
  /\ invalidPhoneNumbers = <<>>
  /\ alertsSent = 0
  /\ hostZone \in TimeZones
  /\ database = EmptyDatabase
  /\ databaseBefore = EmptyDatabase
  /\ execution = NoExecution
  /\ script = "none"
  /\ connection = "closed"
  /\ download = NoDownload
  /\ files = <<>>
  /\ pc = "map"

ProcessStamped ==
  /\ pc = "map"
  /\ parsedCDRs = <<>>
  /\ \E record \in ZoneRows : MapRecord(record)
  /\ UNCHANGED <<pc, alertsSent, hostZone>>
  /\ UNCHANGED <<storeVars, fileVars>>

NextZone == ProcessStamped \/ Finish

SpecZone == InitZone /\ [][NextZone]_vars

(* processAndCleanCDRs on short batches of a few rows, rows occurring more
   than once included. *)

OrderRecords ==
  { CDRRow(JSString(StampJanuary), JSString(Mixed("5", 10)), JSString(<<"9", "1", "1">>)),
    CDRRow(JSString(StampJuly), JSString(<<"9", "1", "1">>), JSString(<<"4", "1", "1">>)),
    CDRRow(JSString(StampJanuary), JSString(<<"1", "2", "3">>), JSString(Mixed("5", 10))),
    CDRRow(JSString(StampUnparseable), JSString(Uniform("0", 10)), JSString(<<"1">> \o Mixed("2", 10))),
    CDRRow(JSUndefined, JSString(<<>>), JSString(Mixed("4", 5))),
    CDRRow(JSString(StampJanuary), JSNumber(911), JSString(<<"1", "2", "3">>)) }

InitOrder ==
  /\ InitCommon
  /\ phone = JSUndefined
  /\ pc = "map"

ProcessOrdered ==
  /\ pc = "map"
  /\ Len(parsedCDRs) < MaxOrdered
  /\ \E record \in OrderRecords : MapRecord(record)
  /\ UNCHANGED <<pc, alertsSent, hostZone>>
  /\ UNCHANGED <<storeVars, fileVars>>

NextOrder == ProcessOrdered \/ Finish

SpecOrder == InitOrder /\ [][NextOrder]_vars

(* processAndCleanCDRs on a whole file: the records of the file are given, the
   map callback runs over all of them from left to right, then the result is
   filtered and the alert decided.  A file holds records with two unusable
   numbers, then at most one record with one unusable number, then records
   whose numbers are both usable. *)

\* parsedCDRs.map(callback) from the first record on: [results, stats, pool]
\* after the first i records
MapFrom(records, first, s, pool, zone) ==
  LET after[i \in 0..Len(records)] ==
        IF i < first THEN [results |-> <<>>, stats |-> s, pool |-> pool]
        ELSE LET done == after[i - 1]
                 m == MapCallback(records[i], done.stats, done.pool, zone)
             IN [results |-> Append(done.results, m.result),
                 stats |-> m.stats,
                 pool |-> m.pool]
  IN after[Len(records)]

UsableRecord ==
  CDRRow(JSString(StampJanuary), JSString(Mixed("5", 10)),
         JSString(<<"9", "-", "1", "-", "1">>))

OneUnusableRecord == [UsableRecord EXCEPT !.ANI = JSString(<<"1", "2", "3">>)]

TwoUnusableRecord == [OneUnusableRecord EXCEPT !.DNIS = JSString(Uniform("0", 10))]

\* the file of n records that leaves p entries in the alert pool
FileOf(n, p) ==
  [i \in 1..n |->
     IF i <= p \div 2 THEN TwoUnusableRecord
     ELSE IF i <= (p + 1) \div 2 THEN OneUnusableRecord
     ELSE UsableRecord]

\* the files of at most MaxFileRecords records and MaxUnusable unusable numbers
Files ==
  {FileOf(np[1], np[2]) :
     np \in {x \in (0..MaxFileRecords) \X (0..MaxUnusable) : (x[2] + 1) \div 2 <= x[1]}}

InitFile ==
  /\ ret = JSUndefined
  /\ threw = FALSE
  /\ stats = createProcessingStats
  /\ before = createProcessingStats
  /\ calls = 0
  /\ phone = JSUndefined
  /\ parsedCDRs \in Files
  /\ processedRecords = <<>>
  /\ invalidPhoneNumbers = <<>>
  /\ alertsSent = 0
  /\ hostZone \in HostZones
  /\ database = EmptyDatabase
  /\ databaseBefore = EmptyDatabase
  /\ execution = NoExecution
  /\ script = "none"
  /\ connection = "closed"
  /\ download = NoDownload
  /\ files = <<>>
  /\ pc = "file"

\* what processAndCleanCDRs leaves behind, m being the result of the map
LeaveBatch(rows, m, callerAlerts) ==
  /\ parsedCDRs' = rows
  /\ processedRecords' = FilterNotNull(m.results)
  /\ invalidPhoneNumbers' = m.pool
  /\ before' = createProcessingStats
  /\ stats' = m.stats
  /\ calls' = 2 * Len(rows)
  /\ alertsSent' = alertsSent + callerAlerts
                     + (IF SendsAlert(m.pool, Len(rows)) THEN 1 ELSE 0)

\* processAndCleanCDRs(rows), from its first line to its return; the caller
\* sends callerAlerts alerts of its own
ProcessAndClean(rows, callerAlerts) ==
  \E m \in {MapFrom(rows, 1, createProcessingStats, <<>>, hostZone)} :
    LeaveBatch(rows, m, callerAlerts)

ProcessFile ==
  /\ pc = "file"
  /\ ProcessAndClean(parsedCDRs, 0)
  /\ pc' = "done"
  /\ UNCHANGED <<phone, ret, threw, hostZone>>
  /\ UNCHANGED <<storeVars, fileVars>>

NextFile == ProcessFile

SpecFile == InitFile /\ [][NextFile]_vars

(* WriteToSQL (lines 939-972) called for one processed file after another:
   the connection may fail, and so may any statement of the procedure. *)

\* what processAndCleanCDRs returns for a file
ProcessedData(file, zone) ==
  FilterNotNull(MapFrom(file, 1, createProcessingStats, <<>>, zone).results)

StoreRows ==
  { UsableRecord, OneUnusableRecord,
    CDRRow(JSUndefined, JSString(Mixed("5", 10)), JSString(<<"4", "1", "1">>)) }

\* the files of at most two rows
StoreFiles ==
  {<<>>} \cup {<<r>> : r \in StoreRows} \cup {<<r, q>> : r \in StoreRows, q \in StoreRows}

StoreFilename == "VI_Inbound.CDR"

\* one WriteToSQL(processedData, filename): connect, execute, catch and finally
WriteToSQL(processedData, filename, failAt) ==
  LET r == IF failAt = "connect"
           THEN [db |-> database, recordCount |-> 0, threw |-> TRUE]
           ELSE VI_StoreCDRs(database, processedData, filename, failAt)
  IN /\ database' = r.db
     /\ databaseBefore' = database
     /\ execution' = [count |-> execution.count + 1,
                      cdrData |-> processedData,
                      failAt |-> failAt,
                      connected |-> failAt # "connect",
                      recordCount |-> r.recordCount,
                      threw |-> r.threw]
     /\ alertsSent' = IF r.threw THEN alertsSent + 1 ELSE alertsSent

InitStore ==
  /\ InitCommon
  /\ phone = JSUndefined
  /\ pc = "store"

StoreFile ==
  /\ pc = "store"
  /\ execution.count < MaxExecutions
  /\ \E file \in StoreFiles, failAt \in {"none", "connect"} \cup FailPoints :
       WriteToSQL(ProcessedData(file, hostZone), StoreFilename, failAt)
  /\ UNCHANGED <<phone, ret, threw, stats, before, calls, pc, parsedCDRs,
                 processedRecords, invalidPhoneNumbers, hostZone, fileVars>>

NextStore == StoreFile

SpecStore == InitStore /\ [][NextStore]_vars

(* The CDR files of one run.  The daily script (processDownloadedFiles,
   ParseCDRs, SaveCDRFiles) parses every file in a synchronous forEach and
   writes each backup with fs.writeFile, whose callback runs after the loop
   and starts the database write.  The two scripts that reprocess a directory
   (processCDRsFromDirectory of test-alert.js, processExistingCDRs) take one
   file after the other: writeFileSync, then await the database write. *)

Scripts == {"VI_GetCDRs", "processCDRsFromDirectory", "processExistingCDRs"}

FileNames == <<"VI_0113.CDR", "VI_0114.CDR", "VI_0115.CDR", "VI_0116.CDR">>

\* the rows of the i-th file
FileRows(i) ==
  IF i % 2 = 1 THEN <<UsableRecord>> ELSE <<OneUnusableRecord, UsableRecord>>

ListedFile(i) ==
  [name |-> FileNames[i], rows |-> FileRows(i), processed |-> <<>>,
   stage |-> "listed", original |-> "present", backup |-> "none", sql |-> "none"]

\* faulty variant: the callback goes on to the database after an error
CallbackOutcomeNoReturn(err) ==
  [backup |-> IF err THEN "failed" ELSE "written", sql |-> "started", stage |-> "writing"]

\* the callback of fs.writeFile: if (err) { ...; return; } await WriteToSQL(...)
CallbackOutcome(err) ==
  IF err THEN [backup |-> "failed", sql |-> "none", stage |-> "done"]
  ELSE [backup |-> "written", sql |-> "started", stage |-> "writing"]

InitRun ==
  /\ ret = JSUndefined
  /\ threw = FALSE
  /\ stats = createProcessingStats
  /\ before = createProcessingStats
  /\ calls = 0
  /\ phone = JSUndefined
  /\ parsedCDRs = <<>>
  /\ processedRecords = <<>>
  /\ invalidPhoneNumbers = <<>>
  /\ alertsSent = 0
  /\ hostZone \in HostZones
  /\ database = EmptyDatabase
  /\ databaseBefore = EmptyDatabase
  /\ execution = NoExecution
  /\ script \in Scripts
  /\ connection = "closed"
  /\ download = NoDownload
  /\ \E n \in 1..MaxCDRFiles : files = [i \in 1..n |-> ListedFile(i)]
  /\ pc = "files"

\* the next file of the loop over the directory
NextListed(i) ==
  /\ i \in 1..Len(files)
  /\ files[i].stage = "listed"
  /\ \A j \in 1..(i - 1) : files[j].stage # "listed"

\* one turn of the forEach of processDownloadedFiles: ParseCDRs(file), then
\* the original is deleted; an error of the deletion ends the loop
ParseCDRs ==
  /\ pc = "files"
  /\ script = "VI_GetCDRs"
  /\ \E i \in 1..Len(files), outcome \in {"saving", "readError", "unlinkError"} :
       /\ NextListed(i)
       /\ IF outcome = "readError"
          THEN /\ files' = [files EXCEPT ![i].stage = "done", ![i].original = "deleted"]
               /\ alertsSent' = alertsSent + 1
               /\ UNCHANGED <<parsedCDRs, processedRecords, invalidPhoneNumbers,
                              before, stats, calls>>
          ELSE /\ ProcessAndClean(files[i].rows, IF outcome = "unlinkError" THEN 1 ELSE 0)
               /\ files' =
                    [j \in 1..Len(files) |->
                       IF j = i
                       THEN [files[j] EXCEPT
                               !.stage = "saving",
                               !.processed = processedRecords',
                               !.original = IF outcome = "unlinkError"
                                            THEN "present" ELSE "deleted"]
                       ELSE IF outcome = "unlinkError" /\ files[j].stage = "listed"
                       THEN [files[j] EXCEPT !.stage = "done"]
                       ELSE files[j]]
  /\ UNCHANGED <<phone, ret, threw, pc, hostZone, script, connection, download,
                 storeVars>>

\* the callback of fs.writeFile for one file, run after the loop has ended
BackupCallback ==
  /\ pc = "files"
  /\ script = "VI_GetCDRs"
  /\ \A j \in 1..Len(files) : files[j].stage # "listed"
  /\ \E i \in 1..Len(files), err \in BOOLEAN :
       /\ files[i].stage = "saving"
       /\ LET o == CallbackOutcome(err) IN
            files' = [files EXCEPT ![i].backup = o.backup, ![i].sql = o.sql,
                                   ![i].stage = o.stage]
       /\ alertsSent' = IF err THEN alertsSent + 1 ELSE alertsSent
  /\ UNCHANGED <<phone, ret, threw, stats, before, calls, pc, parsedCDRs,
                 processedRecords, invalidPhoneNumbers, hostZone, script, connection,
                 download, storeVars>>

\* one turn of the for loop of the reprocessing scripts, up to the await of
\* the database write: read and parse, process, writeFileSync
ProcessFileSync ==
  /\ pc = "files"
  /\ script \in {"processCDRsFromDirectory", "processExistingCDRs"}
  /\ \A j \in 1..Len(files) : files[j].stage \in {"listed", "done"}
  /\ \E i \in 1..Len(files), outcome \in {"written", "readError", "writeError"} :
       /\ NextListed(i)
       /\ IF outcome = "readError"
          THEN /\ files' = [files EXCEPT ![i].stage = "done"]
               /\ UNCHANGED <<parsedCDRs, processedRecords, invalidPhoneNumbers,
                              before, stats, calls, alertsSent>>
          ELSE /\ ProcessAndClean(files[i].rows, 0)
               /\ files' =
                    [files EXCEPT
                       ![i].processed = processedRecords',
                       ![i].backup = IF outcome = "written" THEN "written" ELSE "failed",
                       ![i].sql = IF outcome = "written" THEN "started" ELSE "none",
                       ![i].stage = IF outcome = "written" THEN "writing" ELSE "done"]
  /\ UNCHANGED <<phone, ret, threw, pc, hostZone, script, connection, download,
                 storeVars>>

\* the database write of one file of a reprocessing script, which awaits it
\* before it takes the next file: from sql.connect to sql.close; the
\* directory script then deletes the original
FinishWrite ==
  /\ pc = "files"
  /\ script \in {"processCDRsFromDirectory", "processExistingCDRs"}
  /\ \E i \in 1..Len(files), failAt \in {"none", "connect"} \cup FailPoints :
       /\ files[i].stage = "writing"
       /\ WriteToSQL(files[i].processed, files[i].name, failAt)
       /\ files' = [files EXCEPT
                      ![i].sql = IF failAt = "none" THEN "stored" ELSE "failed",
                      ![i].stage = "done",
                      ![i].original = IF script = "processCDRsFromDirectory"
                                      THEN "deleted" ELSE @]
  /\ UNCHANGED <<phone, ret, threw, stats, before, calls, pc, parsedCDRs,
                 processedRecords, invalidPhoneNumbers, hostZone, script, connection,
                 download>>

(* The database write of one file of the daily script.  The callbacks of
   fs.writeFile do not wait for each other: every file has its own
   WriteToSQL call, and the calls take turns at their awaits.  sql.connect
   and sql.close act on the one global pool of the mssql module. *)

\* `await sql.connect(dbconfig)` has settled: the request is built and
\* request.execute is started, or the catch block starts sendAlert
ConnectSQL ==
  /\ pc = "files"
  /\ script = "VI_GetCDRs"
  /\ \E i \in 1..Len(files), connected \in BOOLEAN :
       /\ files[i].stage = "writing"
       /\ files[i].sql = "started"
       /\ IF connected
          THEN /\ connection' = "open"
               /\ files' = [files EXCEPT ![i].sql = "executing"]
               /\ UNCHANGED <<storeVars, alertsSent>>
          ELSE /\ WriteToSQL(files[i].processed, files[i].name, "connect")
               /\ files' = [files EXCEPT ![i].sql = "alerting"]
               /\ UNCHANGED connection
  /\ UNCHANGED <<phone, ret, threw, stats, before, calls, pc, parsedCDRs,
                 processedRecords, invalidPhoneNumbers, hostZone, script, download>>

\* what the procedure did when the pool was closed under the request: the
\* request fails, whether the transaction was committed or not
ClosedUnderRequest(r) == [r EXCEPT !.threw = TRUE, !.recordCount = 0]

\* `await request.execute('VI_StoreCDRs')` has settled; after a result the
\* finally block calls sql.close(), after an error the catch block starts
\* sendAlert
ExecuteSettled ==
  /\ pc = "files"
  /\ script = "VI_GetCDRs"
  /\ \E i \in 1..Len(files), failAt \in {"none"} \cup FailPoints :
       /\ files[i].sql = "executing"
       /\ \E r \in {IF connection = "open"
                     THEN VI_StoreCDRs(database, files[i].processed, files[i].name, failAt)
                     ELSE ClosedUnderRequest(VI_StoreCDRs(database, files[i].processed,
                                                          files[i].name, failAt))} :
            /\ database' = r.db
            /\ databaseBefore' = database
            /\ execution' = [count |-> execution.count + 1,
                             cdrData |-> files[i].processed,
                             failAt |-> failAt,
                             connected |-> connection = "open",
                             recordCount |-> r.recordCount,
                             threw |-> r.threw]
            /\ alertsSent' = IF r.threw THEN alertsSent + 1 ELSE alertsSent
            /\ connection' = IF r.threw THEN connection ELSE "closed"
            /\ files' = [files EXCEPT
                           ![i].sql = IF r.threw THEN "alerting" ELSE "stored",
                           ![i].stage = IF r.threw THEN "writing" ELSE "done"]
  /\ UNCHANGED <<phone, ret, threw, stats, before, calls, pc, parsedCDRs,
                 processedRecords, invalidPhoneNumbers, hostZone, script, download>>

\* `await sendAlert(...)` of the catch block has settled: the error is
\* thrown again and the finally block calls sql.close()
CloseAfterError ==
  /\ pc = "files"
  /\ script = "VI_GetCDRs"
  /\ \E i \in 1..Len(files) :
       /\ files[i].sql = "alerting"
       /\ files' = [files EXCEPT ![i].sql = "failed", ![i].stage = "done"]
       /\ connection' = "closed"
  /\ UNCHANGED <<phone, ret, threw, stats, before, calls, pc, parsedCDRs,
                 processedRecords, invalidPhoneNumbers, alertsSent, hostZone,
                 script, download, storeVars>>

NextRun ==
  \/ ParseCDRs \/ BackupCallback \/ ProcessFileSync \/ FinishWrite
  \/ ConnectSQL \/ ExecuteSettled \/ CloseAfterError

SpecRun == InitRun /\ [][NextRun]_vars

---------------------------------------------------------------------------
(* processRetroactiveCDRs of test-alert.js: the dates of the range are taken
   one after the other, downloadCDRsForDate(date) being awaited for each.
   The function opens an FTP client, enters the folder of the date and
   downloads it, trying again after a failure.  Each action is one await of
   the function settling, with the code that runs up to the next await.  The
   processing of a downloaded directory is the script
   "processCDRsFromDirectory" above; here only its place in the loop is
   kept. *)

MaxDates == 2

\* const maxRetries = 3;
maxRetries == 3

\* faulty variant: active mode is taken after the first failure
SwitchesToActiveAtOnce(retryCount) == retryCount = 1

\* if (retryCount === 2) client.ftp.pasv = false;
SwitchesToActive(retryCount) == retryCount = 2

\* while (!downloadSuccess && retryCount < maxRetries)
LoopContinues(d) == ~d.downloadSuccess /\ d.retryCount < maxRetries

\* client.close(); return dateDir;  or  client.close(); return null;
ReturnFrom(d, result) ==
  [d EXCEPT !.closed = TRUE, !.result = result, !.position = "returned"]

InitDownload ==
  /\ ret = JSUndefined
  /\ threw = FALSE
  /\ stats = createProcessingStats
  /\ before = createProcessingStats
  /\ calls = 0
  /\ phone = JSUndefined
  /\ parsedCDRs = <<>>
  /\ processedRecords = <<>>
  /\ invalidPhoneNumbers = <<>>
  /\ alertsSent = 0
  /\ hostZone \in HostZones
  /\ database = EmptyDatabase
  /\ databaseBefore = EmptyDatabase
  /\ execution = NoExecution
  /\ script = "processRetroactiveCDRs"
  /\ files = <<>>
  /\ connection = "closed"
  /\ \E optimized \in BOOLEAN : download = [NoDownload EXCEPT !.optimized = optimized]
  /\ pc = "dates"

\* the script is in its loop over the dates, which touches nothing else
DatesLoop ==
  /\ pc = "dates"
  /\ UNCHANGED <<phone, ret, threw, stats, before, calls, pc, batchVars, storeVars,
                 script, files, connection>>

\* for (const date of dates): downloadCDRsForDate(date) up to its first await
StartDate ==
  /\ DatesLoop
  /\ download.position = "idle"
  /\ download.dates < MaxDates
  /\ download' = [download EXCEPT
                    !.dates = @ + 1, !.position = "access", !.approach = 1,
                    !.pasv = "unset", !.retryCount = 0, !.downloadSuccess = FALSE,
                    !.attempts = <<>>, !.closed = FALSE, !.result = "none"]

\* `await client.access(...)` has settled: the one attempt of the optimized
\* mode, or one of the three approaches of the legacy mode
Access ==
  /\ DatesLoop
  /\ download.position = "access"
  /\ \E ok \in BOOLEAN :
       download' =
         IF ok
         THEN [download EXCEPT
                 !.position = "cd",
                 !.pasv = IF download.optimized \/ download.approach = 3
                          THEN "passive" ELSE @]
         ELSE IF ~download.optimized /\ download.approach < 3
         THEN [download EXCEPT !.approach = @ + 1]
         ELSE ReturnFrom(download, "null")

\* `await client.cd(...)` has settled
ChangeFolder ==
  /\ DatesLoop
  /\ download.position = "cd"
  /\ \E ok \in BOOLEAN :
       download' = IF ok
                   THEN [download EXCEPT !.position = "download"]
                   ELSE ReturnFrom(download, "null")

\* `await client.downloadToDir(dateDir)` has settled
Attempt ==
  /\ DatesLoop
  /\ download.position = "download"
  /\ LoopContinues(download)
  /\ \E ok \in BOOLEAN :
       LET tried == [download EXCEPT
                       !.attempts = Append(@, [pasv |-> download.pasv, ok |-> ok])]
           failed == [tried EXCEPT !.retryCount = @ + 1]
       IN download' =
            IF ok
            THEN ReturnFrom([tried EXCEPT !.downloadSuccess = TRUE], "dateDir")
            ELSE IF failed.retryCount < maxRetries
            THEN [failed EXCEPT !.position = "sleep"]
            ELSE ReturnFrom(failed, "null")

\* the two seconds have passed
Retry ==
  /\ DatesLoop
  /\ download.position = "sleep"
  /\ download' = [download EXCEPT
                    !.position = "download",
                    !.pasv = IF SwitchesToActive(download.retryCount) THEN "active" ELSE @]

\* the caller counts the date
CountDate ==
  /\ DatesLoop
  /\ download.position = "returned"
  /\ download' = [download EXCEPT
                    !.position = "idle",
                    !.successCount = IF download.result = "dateDir" THEN @ + 1 ELSE @,
                    !.errorCount = IF download.result = "null" THEN @ + 1 ELSE @]

NextDownload == StartDate \/ Access \/ ChangeFolder \/ Attempt \/ Retry \/ CountDate

SpecDownload == InitDownload /\ [][NextDownload]_vars

\* every await of basic-ftp settles (client.ftp.timeout is 30 seconds) and the
\* timer fires
SpecDownloadFair == SpecDownload /\ WF_vars(NextDownload)

---------------------------------------------------------------------------
(* Properties.  They are stated on what a call leaves behind: the value it
   returned and the difference between the statistics before and after. *)

\* the digits of the last input, read off its text
InputDigits ==
  IF phone.type = "string"
  THEN SelectSeq(phone.chars, LAMBDA c : c \in Digits)
  ELSE <<>>

ClaimedServiceCodes ==
  { <<"9", "1", "1">>, <<"4", "1", "1">>, <<"5", "1", "1">>,
    <<"6", "1", "1">>, <<"7", "1", "1">>, <<"8", "1", "1">> }

DTotal == stats.totalProcessed - before.totalProcessed
DTenDigit == stats.tenDigitNumbers - before.tenDigitNumbers
DService == stats.serviceNumbers - before.serviceNumbers
DInvalid == stats.invalidNumbers - before.invalidNumbers
DCode(c) == stats.serviceNumberBreakdown[c] - before.serviceNumberBreakdown[c]
DCategory(k) == stats.invalidCategories[k] - before.invalidCategories[k]

\* the last call counted one service number, under the code c, and nothing else
CountedService(c) ==
  /\ DService = 1 /\ DTenDigit = 0 /\ DInvalid = 0
  /\ \A x \in ClaimedServiceCodes : DCode(x) = (IF x = c THEN 1 ELSE 0)
  /\ \A k \in InvalidCategoryNames : DCategory(k) = 0
  /\ stats.invalidExamples = before.invalidExamples

\* the last call counted one ten-digit number and nothing else
CountedTenDigit ==
  /\ DTenDigit = 1 /\ DService = 0 /\ DInvalid = 0
  /\ \A x \in ClaimedServiceCodes : DCode(x) = 0
  /\ \A k \in InvalidCategoryNames : DCategory(k) = 0
  /\ stats.invalidExamples = before.invalidExamples

\* the last call counted one invalid number, in the category k, and nothing else
CountedInvalid(k) ==
  /\ DInvalid = 1 /\ DService = 0 /\ DTenDigit = 0
  /\ \A x \in ClaimedServiceCodes : DCode(x) = 0
  /\ \A j \in InvalidCategoryNames : DCategory(j) = (IF j = k THEN 1 ELSE 0)

\* the last call left the statistics as they were
CountedNothing == stats = before

Called == pc \in {"classified", "reclassified"}

\* C1: on one statistics object, after every call of any sequence of calls,
\* totalProcessed = tenDigitNumbers + serviceNumbers + invalidNumbers.
C1_TotalIsSumOfBuckets ==
  stats.totalProcessed
    = stats.tenDigitNumbers + stats.serviceNumbers + stats.invalidNumbers

C1_Witness ==
  /\ pc = "calls"
  /\ stats.tenDigitNumbers >= 1
  /\ stats.serviceNumbers >= 1
  /\ stats.invalidNumbers >= 1

\* C2: an input whose digits are exactly one of the six service codes is
\* returned as that code, whatever separators it holds, and is counted as a
\* service number under that code and not as invalid.
C2_ServiceNumberPreserved ==
  (Called /\ InputDigits \in ClaimedServiceCodes) =>
    /\ ret = JSString(InputDigits)
    /\ CountedService(InputDigits)

C2_Witness ==
  /\ pc = "classified"
  /\ phone = JSString(<<"9", "-", "1", "-", "1">>)
  /\ ret = JSString(<<"9", "1", "1">>)
  /\ stats.serviceNumberBreakdown[<<"9", "1", "1">>] = 1

\* C3: an input whose digits are three digits outside the whitelist returns
\* null and is counted invalid in the short-code category; a three-digit
\* string outside the whitelist is never returned.
C3_OtherThreeDigitsInvalid ==
  /\ (Called /\ Len(InputDigits) = 3 /\ InputDigits \notin ClaimedServiceCodes) =>
       (ret = JSNull /\ CountedInvalid("shortCodes"))
  /\ (Called /\ ret.type = "string" /\ Len(ret.chars) = 3) =>
       ret.chars \in ClaimedServiceCodes

C3_Witness ==
  /\ pc = "classified"
  /\ InputDigits = <<"2", "1", "1">>
  /\ ret = JSNull
  /\ stats.invalidCategories["shortCodes"] = 1

\* C4: ten digits: all zeros or all ones is invalidPattern; otherwise a first
\* digit 2..9 returns the ten digits unchanged as a ten-digit number;
\* otherwise (first digit 0 or 1) it is invalidAreaCode.
C4_TenDigitRules ==
  (Called /\ Len(InputDigits) = 10) =>
    IF InputDigits \in {Uniform("0", 10), Uniform("1", 10)}
    THEN ret = JSNull /\ CountedInvalid("invalidPattern")
    ELSE IF InputDigits[1] \in {"2", "3", "4", "5", "6", "7", "8", "9"}
    THEN ret = JSString(InputDigits) /\ CountedTenDigit
    ELSE ret = JSNull /\ CountedInvalid("invalidAreaCode")

C4_Witness ==
  /\ pc = "classified"
  /\ InputDigits = Uniform("1", 10)
  /\ ret = JSNull
  /\ stats.invalidCategories["invalidPattern"] = 1

\* the counters of a statistics object, without the texts of the examples
Counters(s) == [s EXCEPT !.invalidExamples = Len(@)]

\* C5: an input whose digits are 1 followed by ten digits d has the outcome of
\* d itself (returned value and counters); eleven digits not starting with 1
\* are not stripped and are counted international.
C5_LeadingOneStripped ==
  /\ (Called /\ Len(InputDigits) = 11 /\ InputDigits[1] = "1") =>
       LET d == cleanPhoneNumber(JSString(Tail(InputDigits)), before) IN
         /\ ~threw /\ ~d.threw
         /\ ret = d.ret
         /\ Counters(stats) = Counters(d.stats)
  /\ (Called /\ Len(InputDigits) = 11 /\ InputDigits[1] # "1") =>
       (ret = JSNull /\ CountedInvalid("international"))

C5_Witness ==
  /\ pc = "classified"
  /\ InputDigits = <<"1">> \o Uniform("1", 10)
  /\ ret = JSNull
  /\ stats.invalidCategories["invalidPattern"] = 1

\* C6: digits of any length other than 3, 10 or 11 with a leading 1 return
\* null and count one invalid category chosen by the length: more than 10 is
\* international, 4 to 6 is shortCodes, 1, 2, 7, 8 and 9 are invalidLength.
C6_OtherLengthsByLength ==
  LET n == Len(InputDigits) IN
  (Called /\ n >= 1 /\ n # 3 /\ n # 10 /\ ~(n = 11 /\ InputDigits[1] = "1")) =>
    /\ ret = JSNull
    /\ IF n > 10 THEN CountedInvalid("international")
       ELSE IF n \in {4, 5, 6} THEN CountedInvalid("shortCodes")
       ELSE CountedInvalid("invalidLength")

C6_Witness ==
  /\ pc = "classified"
  /\ InputDigits = <<"0", "9", "1", "1">>
  /\ ret = JSNull
  /\ stats.invalidCategories["shortCodes"] = 1

\* the outcomes of a classification
Outcomes ==
  {<<"service">> \o c : c \in ClaimedServiceCodes}
    \cup {<<"tenDigit">>}
    \cup {<<"invalid", k>> : k \in InvalidCategoryNames}
    \cup {<<"emptyOrNonNumeric">>}

OutcomeHolds(o) ==
  CASE o[1] = "service" -> ret = JSString(Tail(o)) /\ CountedService(Tail(o))
    [] o[1] = "tenDigit" ->
         ret.type = "string" /\ Len(ret.chars) = 10 /\ CountedTenDigit
    [] o[1] = "invalid" -> ret = JSNull /\ CountedInvalid(o[2])
    [] OTHER -> ret = JSNull /\ CountedNothing

\* C7: for every input value (null, undefined, numbers, objects, the empty
\* string, text without digits, digits of any length) the call returns without
\* throwing and has exactly one outcome; a value without digits returns null.
C7_TotalExactlyOneOutcome ==
  Called =>
    /\ ~threw
    /\ Cardinality({o \in Outcomes : OutcomeHolds(o)}) = 1
    /\ InputDigits = <<>> => OutcomeHolds(<<"emptyOrNonNumeric">>)

C7_Witness ==
  /\ pc = "classified"
  /\ phone = JSNumber(911)
  /\ ~threw
  /\ ret = JSNull

\* C8: classifying a returned non-null value returns it again with the same
\* outcome: the second call counts exactly what the first call counted, the
\* statistics object being fresh before the first.
C8_Idempotent ==
  pc = "reclassified" =>
    /\ ~threw
    /\ ret = phone
    /\ before.totalProcessed = 1
    /\ before.tenDigitNumbers + before.serviceNumbers = 1
    /\ stats.totalProcessed = 2 * before.totalProcessed
    /\ stats.tenDigitNumbers = 2 * before.tenDigitNumbers
    /\ stats.serviceNumbers = 2 * before.serviceNumbers
    /\ stats.invalidNumbers = 0
    /\ \A c \in ClaimedServiceCodes :
         stats.serviceNumberBreakdown[c] = 2 * before.serviceNumberBreakdown[c]
    /\ stats.uniqueNumbers = before.uniqueNumbers

C8_Witness ==
  /\ pc = "reclassified"
  /\ ret = JSString(Mixed("5", 10))
  /\ stats.tenDigitNumbers = 2

\* a text that holds at least one digit
HasDigit(v) ==
  v.type = "string" /\ \E i \in 1..Len(v.chars) : v.chars[i] \in Digits

\* the number of ANI and DNIS fields of the records that hold a digit
RECURSIVE DigitFields(_)
DigitFields(records) ==
  IF records = <<>> THEN 0
  ELSE (IF HasDigit(Head(records).ANI) THEN 1 ELSE 0)
         + (IF HasDigit(Head(records).DNIS) THEN 1 ELSE 0)
         + DigitFields(Tail(records))

\* C9, as claimed: every classification, those of null, empty and non-numeric
\* values included, increments totalProcessed by one, so that totalProcessed
\* is the number of classifications made (2 per record).
C9_EveryClassificationCounted ==
  /\ stats.totalProcessed = calls
  /\ calls = 2 * Len(parsedCDRs)

\* C9, amended: a classification increments totalProcessed by one exactly when
\* the value is a text holding at least one digit, and leaves the statistics
\* untouched otherwise; after a batch totalProcessed is the number of ANI and
\* DNIS fields holding a digit, at most the 2 classifications per record.
C9_DigitBearingFieldsCounted ==
  /\ calls = 2 * Len(parsedCDRs)
  /\ stats.totalProcessed = DigitFields(parsedCDRs)
  /\ stats.totalProcessed <= calls
  /\ DTotal = (IF HasDigit(phone) THEN 1 ELSE 0)
  /\ ~HasDigit(phone) => stats = before

C9_Witness ==
  /\ pc = "done"
  /\ Len(parsedCDRs) = 2
  /\ calls = 4
  /\ stats.totalProcessed = 3
  /\ \E i \in 1..2 : parsedCDRs[i].ANI = JSString(<<>>)

\* a text that is a service number or a valid ten-digit number, with or
\* without the leading 1
ValidNumberText(v) ==
  /\ v.type = "string"
  /\ LET d == SelectSeq(v.chars, LAMBDA c : c \in Digits)
         area == {"2", "3", "4", "5", "6", "7", "8", "9"}
     IN \/ d \in ClaimedServiceCodes
        \/ Len(d) = 10 /\ d[1] \in area
        \/ Len(d) = 11 /\ d[1] = "1" /\ d[2] \in area

TextOrAbsent(v) == v.type \in {"string", "undefined", "null"}

\* the number of ANI and DNIS fields that classify as invalid for any reason
RECURSIVE InvalidFields(_)
InvalidFields(records) ==
  IF records = <<>> THEN 0
  ELSE (IF ValidNumberText(Head(records).ANI) THEN 0 ELSE 1)
         + (IF ValidNumberText(Head(records).DNIS) THEN 0 ELSE 1)
         + InvalidFields(Tail(records))

\* the entry of a field that is a non-empty text and no valid number
ExpectedEntry(field, v) ==
  IF v.type = "string" /\ Len(v.chars) > 0 /\ ~ValidNumberText(v)
  THEN << <<field, v.chars>> >>
  ELSE <<>>

RECURSIVE ExpectedPool(_)
ExpectedPool(records) ==
  IF records = <<>> THEN <<>>
  ELSE ExpectedEntry("ANI", Head(records).ANI)
         \o ExpectedEntry("DNIS", Head(records).DNIS)
         \o ExpectedPool(Tail(records))

\* C10, as claimed: the alert pool holds exactly one entry for each ANI or
\* DNIS field that classified as invalid for any reason, empty and
\* non-numeric fields included.
C10_EveryInvalidFieldPooled ==
  Len(invalidPhoneNumbers) = InvalidFields(parsedCDRs)

\* C10, amended: for records whose ANI and DNIS are text or absent, the alert
\* pool holds, in order, exactly one entry for each non-empty field that is
\* neither a service number nor a valid ten-digit number (text without digits
\* included) and none for an absent or empty field; in every batch no entry
\* is a service number or a valid ten-digit number, and a batch whose fields
\* are all service numbers or valid ten-digit numbers sends no alert.
C10_NonEmptyInvalidFieldsPooled ==
  /\ (\A i \in 1..Len(parsedCDRs) :
        TextOrAbsent(parsedCDRs[i].ANI) /\ TextOrAbsent(parsedCDRs[i].DNIS))
       => invalidPhoneNumbers = ExpectedPool(parsedCDRs)
  /\ \A i \in 1..Len(invalidPhoneNumbers) :
       /\ Len(invalidPhoneNumbers[i][2]) > 0
       /\ ~ValidNumberText(JSString(invalidPhoneNumbers[i][2]))
  /\ (\A i \in 1..Len(parsedCDRs) :
        ValidNumberText(parsedCDRs[i].ANI) /\ ValidNumberText(parsedCDRs[i].DNIS))
       => (invalidPhoneNumbers = <<>> /\ alertsSent = 0)

C10_Witness ==
  /\ pc = "done"
  /\ Len(parsedCDRs) = 2
  /\ parsedCDRs[1].ANI = JSString(<<"1", "2", "3">>)
  /\ parsedCDRs[1].DNIS = JSString(<<"9", "-", "1", "-", "1">>)
  /\ parsedCDRs[2].ANI = JSString(<<>>)
  /\ parsedCDRs[2].DNIS = JSString(<<"9", "-", "1", "-", "1">>)
  /\ invalidPhoneNumbers = << <<"ANI", <<"1", "2", "3">>>> >>
  /\ alertsSent = 0

---------------------------------------------------------------------------
(* The alert decision of a whole file *)

Maximum(a, b) == IF a >= b THEN a ELSE b

\* C11: a batch of N records that leaves P entries in the alert pool hands the
\* alert to sendAlert exactly when P >= max(5, floor(N * 0.10)), and at most
\* once; otherwise no alert is produced.
C11_AlertExactlyAtThreshold ==
  pc = "done" =>
    LET N == Len(parsedCDRs)
        P == Len(invalidPhoneNumbers)
    IN /\ alertsSent <= 1
       /\ (alertsSent = 1) <=> (P >= Maximum(5, N \div 10))

\* a batch of 100 records with exactly 10 pooled numbers has alerted
C11_Witness ==
  /\ pc = "done"
  /\ Len(parsedCDRs) = 100
  /\ Len(invalidPhoneNumbers) = 10
  /\ alertsSent = 1

---------------------------------------------------------------------------
(* One row: what is emitted for it *)

\* the file held one row and processAndCleanCDRs has returned
RowDone == pc = "done" /\ Len(parsedCDRs) = 1

\* a text new Date() reads as a timestamp
TimestampText(v) ==
  v.type = "string" /\ v.chars \in {StampJanuary, StampMarch, StampJuly, StampNovember}

\* a text with a numeric prefix after its leading blanks and sign
NumericText(v, pointAllowed) ==
  /\ v.type = "string"
  /\ LET t == SelectSeq(v.chars, LAMBDA c : c # " ")
         u == IF Len(t) > 0 /\ t[1] \in {"+", "-"} THEN Tail(t) ELSE t
     IN \/ Len(u) > 0 /\ u[1] \in Digits
        \/ pointAllowed /\ Len(u) > 1 /\ u[1] = "." /\ u[2] \in Digits

\* C12: a record whose ANI and/or DNIS is neither a service number nor a valid
\* ten-digit number is not dropped: a cleaned record is emitted for it, with
\* the failing field(s) null.
C12_InvalidPhoneRecordEmitted ==
  LET in == parsedCDRs[1] IN
  (RowDone /\ (~ValidNumberText(in.ANI) \/ ~ValidNumberText(in.DNIS))) =>
    /\ Len(processedRecords) = 1
    /\ ~ValidNumberText(in.ANI) => processedRecords[1].ANI = JSNull
    /\ ~ValidNumberText(in.DNIS) => processedRecords[1].DNIS = JSNull

\* C13: a record whose StartTime is absent, or a non-empty text that is no
\* timestamp, is emitted with StartTime null and never dropped.
C13_UnparseableStartTimeEmitted ==
  (RowDone /\ ~TimestampText(parsedCDRs[1].StartTime)) =>
    /\ Len(processedRecords) = 1
    /\ processedRecords[1].StartTime = JSNull

\* C14: in every emitted record BillDuration is a non-negative integer and
\* CallPrice a non-negative number, whatever the input text, and 0 when the
\* text cannot be parsed.
C14_DurationAndPriceNonNegative ==
  (RowDone /\ Len(processedRecords) = 1) =>
    LET in == parsedCDRs[1]
        out == processedRecords[1]
    IN /\ out.BillDuration.type = "number" /\ out.BillDuration.num >= 0
       /\ out.CallPrice.type = "decimal" /\ out.CallPrice.num >= 0
       /\ ~NumericText(in.BillDuration, FALSE) => out.BillDuration.num = 0
       /\ ~NumericText(in.CallPrice, TRUE) => out.CallPrice.num = 0

---------------------------------------------------------------------------
(* A batch: dropped records, record order, the empty batch *)

\* the transformation of the record throws: an Invalid Date is formatted, or
\* replace is called on a number
TransformationThrows(r) ==
  \/ r.StartTime.type = "string" /\ Len(r.StartTime.chars) > 0 /\ ~TimestampText(r.StartTime)
  \/ r.ANI.type = "number" /\ r.ANI.num # 0
  \/ r.DNIS.type = "number" /\ r.DNIS.num # 0

\* the cleaned value of a phone field
CleanedNumber(v) ==
  IF ~ValidNumberText(v) THEN JSNull
  ELSE LET d == SelectSeq(v.chars, LAMBDA c : c \in Digits)
       IN JSString(IF Len(d) = 11 THEN Tail(d) ELSE d)

Orderings(records) ==
  LET n == Len(records)
      perms == {f \in [1..n -> 1..n] : \A i, j \in 1..n : f[i] = f[j] => i = j}
  IN {[i \in 1..n |-> records[f[i]]] : f \in perms}

\* what a batch reports, the list of examples left out
Report(s, pool, n) ==
  [ totalProcessed |-> s.totalProcessed,
    tenDigitNumbers |-> s.tenDigitNumbers,
    serviceNumbers |-> s.serviceNumbers,
    invalidNumbers |-> s.invalidNumbers,
    serviceNumberBreakdown |-> s.serviceNumberBreakdown,
    invalidCategories |-> s.invalidCategories,
    uniqueNumbers |-> s.uniqueNumbers,
    poolSize |-> Len(pool),
    alert |-> (Len(pool) >= Maximum(5, n \div 10)) ]

\* C16: the batch result does not depend on the order of the records: every
\* ordering of the same records gives the same counters, breakdowns, set of
\* unique numbers, alert pool size and alert decision.
C16_OrderIndependent ==
  pc = "done" =>
    \A other \in Orderings(parsedCDRs) :
      LET m == MapFrom(other, 1, createProcessingStats, <<>>, hostZone) IN
      /\ Report(m.stats, m.pool, Len(other))
           = Report(stats, invalidPhoneNumbers, Len(parsedCDRs))
      /\ Len(FilterNotNull(m.results)) = Len(processedRecords)
      /\ (alertsSent = 1) <=> (Len(m.pool) >= Maximum(5, Len(other) \div 10))

\* a batch of three different records, one of them dropped, is done
C16_Witness ==
  /\ pc = "done"
  /\ Len(parsedCDRs) = 3
  /\ Cardinality({parsedCDRs[i] : i \in 1..3}) = 3
  /\ Cardinality(stats.uniqueNumbers) = 3
  /\ Len(processedRecords) = 2

\* C17: an empty batch is no error: processAndCleanCDRs returns an empty list,
\* every counter of the statistics is 0 and no alert is sent.
C17_EmptyBatch ==
  (pc = "done" /\ parsedCDRs = <<>>) =>
    /\ processedRecords = <<>>
    /\ stats.totalProcessed = 0
    /\ stats.tenDigitNumbers = 0
    /\ stats.serviceNumbers = 0
    /\ stats.invalidNumbers = 0
    /\ \A c \in DOMAIN stats.serviceNumberBreakdown : stats.serviceNumberBreakdown[c] = 0
    /\ \A k \in DOMAIN stats.invalidCategories : stats.invalidCategories[k] = 0
    /\ stats.uniqueNumbers = {}
    /\ stats.invalidExamples = <<>>
    /\ invalidPhoneNumbers = <<>>
    /\ alertsSent = 0

C17_Witness ==
  /\ pc = "done"
  /\ parsedCDRs = <<>>
  /\ processedRecords = <<>>
  /\ alertsSent = 0

---------------------------------------------------------------------------
(* The database *)

\* two rows of cdr that agree on the five columns of the deduplication
SameCall(a, b) ==
  /\ a.date = b.date
  /\ a.source = b.source
  /\ a.destination = b.destination
  /\ a.seconds = b.seconds
  /\ a.cost = b.cost

\* C18: after any sequence of VI_StoreCDRs executions the cdr table never
\* holds two rows that agree on (date, source, destination, seconds, cost):
\* not when a batch is stored twice, not when a batch holds a record twice,
\* not when ANI or DNIS is null.
C18_NoDuplicateRows ==
  \A i, j \in 1..Len(database.cdr) :
    i # j => ~SameCall(database.cdr[i], database.cdr[j])

\* C19: VI_StoreCDRs is all-or-nothing.  When a statement fails, cdr and the
\* staging table are as before the call, one 'Failed' audit row is added and
\* the error reaches the caller; when none fails, the staging table is empty,
\* exactly one 'Success' audit row is added and recordCount is the number of
\* records submitted.
C19_AllOrNothing ==
  (execution.count > 0 /\ execution.connected) =>
    LET audit == database.AuditTrail
        added == SubSeq(audit, Len(databaseBefore.AuditTrail) + 1, Len(audit))
    IN /\ SubSeq(audit, 1, Len(databaseBefore.AuditTrail)) = databaseBefore.AuditTrail
       /\ Len(added) = 1
       /\ IF execution.failAt \in FailPoints
          THEN /\ database.cdr = databaseBefore.cdr
               /\ database.VI_Inboundcdrs = databaseBefore.VI_Inboundcdrs
               /\ added[1].outcome = "Failed"
               /\ execution.threw
          ELSE /\ database.VI_Inboundcdrs = <<>>
               /\ added[1].outcome = "Success"
               /\ added[1].datavalue = Len(execution.cdrData)
               /\ execution.recordCount = Len(execution.cdrData)
               /\ ~execution.threw

\* the statement after the insert into cdr failed on a batch of two records,
\* an earlier batch having been stored
C19_Witness ==
  /\ execution.count = 2
  /\ execution.failAt = "cleanup"
  /\ Len(execution.cdrData) = 2
  /\ Len(database.cdr) = 1
  /\ database.cdr = databaseBefore.cdr
  /\ database.AuditTrail[2].outcome = "Failed"

---------------------------------------------------------------------------
(* Backup before database *)

\* C20: for every CDR file the database write starts only after the JSON
\* backup of its processed records has been written, and when the backup
\* write fails no database write is attempted for that file.
C20_BackupBeforeDatabase ==
  /\ \A i \in 1..Len(files) :
       /\ files[i].sql # "none" => files[i].backup = "written"
       /\ files[i].backup = "failed" => files[i].sql = "none"
  /\ execution.count
       = Cardinality({i \in 1..Len(files) : files[i].sql \in {"stored", "alerting", "failed"}})

\* one file was stored after its backup, another lost its backup and was
\* not written to the database
C20_Witness ==
  /\ Len(files) = 2
  /\ \E i, j \in 1..2 :
       /\ files[i].backup = "written" /\ files[i].sql = "stored"
       /\ files[j].backup = "failed" /\ files[j].stage = "done"
  /\ execution.count = 1

---------------------------------------------------------------------------
(* Failed operations and the downloaded originals *)

\* C21: in a daily run, every downloaded file whose original has been
\* deleted from ./cdrs and whose handling has ended has its processed
\* records in a backup file under ./bak or stored in the database, also when
\* parsing, the backup write or the database write failed.
C21_DeletedOriginalIsKept ==
  script = "VI_GetCDRs" =>
    \A i \in 1..Len(files) :
      (files[i].stage = "done" /\ files[i].original = "deleted")
        => (files[i].backup = "written" \/ files[i].sql = "stored")

---------------------------------------------------------------------------
(* Classification and the statistics object *)

\* C22: classifying a phone number is pure: a call of cleanPhoneNumber
\* leaves the statistics object as it was.
C22_ClassificationLeavesStatistics ==
  calls > 0 => stats = before

\* C22, amended: the value a call returns depends on the input alone, it is
\* the value the same input gets on a fresh statistics object; the call
\* itself records the outcome: an input with a digit is counted in
\* totalProcessed by the call, any other input leaves the object as it was.
C22_ReturnDependsOnInputOnly ==
  (calls > 0 /\ ~threw) =>
    /\ ret = cleanPhoneNumber(phone, createProcessingStats).ret
    /\ HasDigit(phone) => stats.totalProcessed = before.totalProcessed + 1
    /\ ~HasDigit(phone) => stats = before

\* a number was returned by a call on a statistics object that had already
\* counted two outcomes
C22_Witness ==
  /\ calls = 3
  /\ before.totalProcessed = 2
  /\ before.invalidNumbers = 1
  /\ ret # JSNull
  /\ stats # before

\* the sum of the values of a function with a finite domain
RECURSIVE SumOver(_, _)
SumOver(f, keys) ==
  IF keys = {} THEN 0
  ELSE LET k == CHOOSE x \in keys : TRUE IN f[k] + SumOver(f, keys \ {k})

\* the per-code and per-reason counters a call changed
ChangedCounters ==
  {c \in ServiceCodes : DCode(c) # 0} \cup {k \in InvalidCategoryNames : DCategory(k) # 0}

\* C23: after any sequence of calls on one statistics object serviceNumbers
\* is the sum of the six per-code counts and invalidNumbers is the sum of the
\* per-reason counts; a call changes at most one per-code or per-reason
\* counter, and changes it by exactly one.
C23_TotalsAreSumsOfBreakdowns ==
  /\ stats.serviceNumbers = SumOver(stats.serviceNumberBreakdown, ServiceCodes)
  /\ stats.invalidNumbers = SumOver(stats.invalidCategories, InvalidCategoryNames)
  /\ Cardinality(ServiceCodes) = 6
  /\ Cardinality(ChangedCounters) <= 1
  /\ \A c \in ServiceCodes : DCode(c) \in {0, 1}
  /\ \A k \in InvalidCategoryNames : DCategory(k) \in {0, 1}

\* three calls have counted a service number and two invalid numbers of
\* different reasons
C23_Witness ==
  /\ calls = 3
  /\ stats.serviceNumbers = 1
  /\ stats.invalidNumbers = 2
  /\ Cardinality({k \in InvalidCategoryNames : stats.invalidCategories[k] = 1}) = 2
  /\ Cardinality(ChangedCounters) = 1

---------------------------------------------------------------------------
(* The list of invalid examples *)

\* C24: the list of invalid examples is bounded and append-only: its length
\* is min(10, invalidNumbers); a call with an invalid outcome appends its
\* input while the list has fewer than 10 entries, so the list holds the
\* first invalid inputs in the order of their classification; no other call
\* changes the list, and no entry is removed or replaced.
C24_ExamplesBoundedAppendOnly ==
  [][ LET old == stats.invalidExamples
          new == stats'.invalidExamples
      IN /\ Len(new) = IF stats'.invalidNumbers < 10 THEN stats'.invalidNumbers ELSE 10
         /\ Len(new) >= Len(old)
         /\ SubSeq(new, 1, Len(old)) = old
         /\ Len(new) <= Len(old) + 1
         /\ Len(new) = Len(old) + 1 <=>
              (stats'.invalidNumbers = stats.invalidNumbers + 1 /\ Len(old) < 10)
         /\ Len(new) = Len(old) + 1 => new[Len(new)][2] = phone'.chars
         /\ ret' # JSNull => new = old
    ]_vars

\* the eleventh invalid number has been classified after ten examples of
\* two different reasons were kept
C24_Witness ==
  /\ stats.invalidNumbers = 11
  /\ before.invalidNumbers = 10
  /\ Len(stats.invalidExamples) = 10
  /\ stats.invalidExamples[1][1] # stats.invalidExamples[2][1]
  /\ stats.tenDigitNumbers = 1

---------------------------------------------------------------------------
(* The form of the numbers that pass *)

\* a service code, or ten digits of which the first is 2..9
PassingNumber(chars) ==
  \/ chars \in ClaimedServiceCodes
  \/ /\ Len(chars) = 10
     /\ \A i \in 1..10 : chars[i] \in Digits
     /\ chars[1] \in {"2", "3", "4", "5", "6", "7", "8", "9"}
     /\ chars \notin {Uniform("0", 10), Uniform("1", 10)}

\* C25: every value cleanPhoneNumber returns that is not null, and every
\* member of the set of unique numbers, is one of the six service codes or a
\* string of exactly 10 digits whose first digit is 2..9; anything else is
\* filtered to null.
C25_OnlyServiceCodesAndTenDigits ==
  /\ (pc \in {"classified", "reclassified"} /\ ~threw /\ ret # JSNull) =>
       (ret.type = "string" /\ PassingNumber(ret.chars))
  /\ \A n \in stats.uniqueNumbers : PassingNumber(n)
  /\ LET national == IF Len(InputDigits) = 11 /\ InputDigits[1] = "1"
                     THEN Tail(InputDigits) ELSE InputDigits
     IN (pc = "classified" /\ ~threw /\ ~PassingNumber(national)) => ret = JSNull

\* an 11-digit input with separators was returned as its last ten digits
C25_Witness ==
  /\ pc = "classified"
  /\ Len(InputDigits) = 11
  /\ Len(phone.chars) > 11
  /\ ret.type = "string"
  /\ Len(ret.chars) = 10
  /\ ret.chars \in stats.uniqueNumbers

---------------------------------------------------------------------------
(* The adjustment of StartTime *)

\* the instant a timestamp text denotes, in hours since 2025-01-01T00:00Z
InstantOf(v) ==
  CASE v.chars = StampJanuary -> 298
    [] v.chars = StampMarch -> 1624
    [] v.chars = StampJuly -> 4426
    [] v.chars = StampNovember -> 7336

\* one row with a timestamp has been processed and emitted
StampedRowDone ==
  /\ RowDone
  /\ Len(processedRecords) = 1
  /\ processedRecords[1].StartTime.type = "isostring"

\* the host's offset on the date of the row and on 1 January of its year
OffsetOnDate == getTimezoneOffset(hostZone, InstantOf(parsedCDRs[1].StartTime))
OffsetInJanuary == getTimezoneOffset(hostZone, JanuaryFirst(hostZone))

\* the hours between the timestamp of the row and the emitted StartTime
HoursMoved == processedRecords[1].StartTime.num - InstantOf(parsedCDRs[1].StartTime)

---------------------------------------------------------------------------
(* Dropped records and the statistics *)

\* the records of the batch that appear in the output
EmittedInputs == SelectSeq(parsedCDRs, LAMBDA r : ~TransformationThrows(r))

\* C27: a record dropped because its transformation threw contributes
\* nothing to the statistics or to the alert pool: after a batch
\* totalProcessed counts only the phone fields of the records that appear in
\* the output, and the alert pool holds entries only for such records.
C27_DroppedRecordsNotCounted ==
  pc = "done" =>
    /\ stats.totalProcessed = DigitFields(EmittedInputs)
    /\ Len(invalidPhoneNumbers) <= Len(ExpectedPool(EmittedInputs))

---------------------------------------------------------------------------
(* The database writes of several files *)

\* C28: in a daily run with more than one file the database writes do not
\* interfere: the shared connection is not closed while the stored procedure
\* of a file is still being executed, and every execution that was started
\* settles on an open connection.
C28_NoCloseDuringExecution ==
  script = "VI_GetCDRs" =>
    /\ \A i \in 1..Len(files) : files[i].sql = "executing" => connection = "open"
    /\ (execution.count > 0 /\ execution.failAt # "connect") => execution.connected

---------------------------------------------------------------------------
(* The download retry loop *)

\* the download attempts of the date have ended
LoopEnded == download.position \in {"returned", "idle"} /\ download.attempts # <<>>

\* what the retry loop has done and may still do
RetryLoopBounded ==
  LET tries == download.attempts IN
  /\ Len(tries) <= 3
  /\ \A i \in 1..Len(tries) :
       /\ tries[i].ok => i = Len(tries)
       /\ tries[i].pasv = "active" <=> i = 3
  /\ download.position \in {"download", "sleep"} =>
       (Len(tries) < 3 /\ \A i \in 1..Len(tries) : ~tries[i].ok)
  /\ LoopEnded =>
       /\ download.closed
       /\ download.result = IF tries[Len(tries)].ok THEN "dateDir" ELSE "null"
       /\ download.result = "null" => Len(tries) = 3

\* C29: the download retry loop always terminates: for one date it makes at
\* least one and at most 3 attempts, stops at the first success and returns
\* the date directory, is in active mode for the third attempt only, and
\* after the third failure closes the client and returns null.
C29_RetryLoopTerminates ==
  /\ []RetryLoopBounded
  /\ (download.position = "download") ~> LoopEnded

\* the third attempt, made in active mode, failed as the two before it
C29_Witness ==
  /\ download.position = "returned"
  /\ Len(download.attempts) = 3
  /\ download.attempts[2].pasv = "passive"
  /\ download.attempts[3].pasv = "active"
  /\ ~download.attempts[3].ok
  /\ download.result = "null"
  /\ download.closed

---------------------------------------------------------------------------
(* The copies of cleanPhoneNumber *)

\* C30: the cleanPhoneNumber of the retroactive and local-file scripts is
\* equivalent to the daily script's: on every input and every statistics
\* object it returns the same value and leaves the same counters,
\* breakdowns, list of examples and set of unique numbers.
C30_CopiesEquivalent ==
  /\ \A p \in SampleInputs :
       cleanPhoneNumberRetroactive(p, stats) = cleanPhoneNumber(p, stats)
  /\ calls > 0 =>
       /\ cleanPhoneNumberRetroactive(phone, before).ret = ret
       /\ cleanPhoneNumberRetroactive(phone, before).stats = stats

\* both functions are applied to a statistics object whose list of examples
\* is full and which has counted service, ten-digit and invalid numbers
C30_Witness ==
  /\ Len(stats.invalidExamples) = 10
  /\ stats.invalidNumbers = 10
  /\ stats.serviceNumbers = 1
  /\ stats.tenDigitNumbers = 1
  /\ cleanPhoneNumberRetroactive(JSString(Mixed("4", 5)), stats).stats.invalidNumbers = 11

===========================================================================
